---- MODULE Spec2Model ----
(***************************************************************************)
(* Model of the build/fix/verify orchestrator:                             *)
(*   src/debug-pipeline/src/pipeline.ts  (run state machine, history)      *)
(*   src/ui-debugger/src/git.ts          (checkpoint / rollback)           *)
(*   src/ui-debugger/src/dashboard.ts    (HTTP front door, lines 1143 ff.) *)
(*   src/ui-debugger/src/mcp.ts          (MCP tool front door)             *)
(*   src/unnamed/part_005                (oracle adapter, getClient)       *)
(*                                                                         *)
(* JavaScript runs one callback at a time, so every action below is the    *)
(* code that runs between two awaits of real I/O: a trigger runs           *)
(* runPipeline up to its first executeCommand; each ...Done action is the  *)
(* continuation that runs when the awaited command or oracle call          *)
(* resolves.  Helper operators take and return a "world" record w holding  *)
(* every mutable variable, so that a handler calling several functions is  *)
(* one action.                                                             *)
(***************************************************************************)
EXTENDS Integers, Sequences, FiniteSets, TLC

VARIABLES
    isRunning,    \* state.isRunning
    currentRun,   \* state.currentRun: index into runs, 0 for null
    history,      \* state.history: run indexes (object references), newest first
    stats,        \* state.stats
    runs,         \* every PipelineRun object allocated so far, with the locals of its execution
                  \* (seen: the stages updateStage has given the run)
    emitted,      \* the events pipelineEvents emitted during the last step, in order
    evOpen,       \* runs whose 'start' event was emitted and whose 'complete' event was not yet
    resp,         \* the answer of the last front-door request
    gitLog,       \* the branch of the project's repository: commit numbers, HEAD last
    tree,         \* uncommitted changes of the working tree: subset of {"user", "fix"}
    nextCommit,   \* number of the next commit object git creates
    client,       \* analyzer's cached oracle client exists
    isRepo,       \* the project root is a git repository
    apiKeyEnv,    \* process.env.ANTHROPIC_API_KEY is set
    disk,         \* the file system applyEdits writes to: directories, files, and
                  \* the files an edit created or overwrote, all as real paths
    changedFiles, \* the return value of the last applyEdits call
    cmd,          \* one executeCommand call: the child process, its pipes, the timer,
                  \* the closure's stdout and stderr, and the value the promise resolved to
    hook,         \* the AutoHook object: its isRunning field, its configuration and the
                  \* runHook calls made so far, each with its position
    fix,          \* one runAutoFix call: its configuration, its locals (remainingIssues,
                  \* attempts, attemptNumber, finalVerification), its position and its result
    req           \* one request handled by a function that keeps no pipeline state:
                  \* the function, its arguments, and once it returned its result

vars == <<isRunning, currentRun, history, stats, runs, emitted, evOpen, resp,
          gitLog, tree, nextCommit, client, isRepo, apiKeyEnv, disk, changedFiles, cmd,
          hook, fix, req>>

----------------------------------------------------------------------------
(* Bounds of the model *)

MaxRuns == 2
MaxFix == 2
MaxEdits == 2
MaxChunks == 2
MaxHooks == 2
MaxHookRuns == 1
MaxIssues == 2

(* Program constants *)

DefaultMaxFixAttempts == 3
DefaultMaxAttempts == 3
HistoryCap == 50
MinHashLen == 7
MaxHashLen == 40

----------------------------------------------------------------------------
(* Text: a message or summary is a sequence of tokens; a token is literal  *)
(* text or a commit hash.                                                  *)

Lit(s) == [s |-> s, h |-> 0]
HashTok(n) == [s |-> "hash", h |-> n]
NumTok(k) == [s |-> "num", h |-> k]

NoSummary == <<>>
NoError == ""

(* no analysis in scope: outside a fix iteration *)
NoAnalysis ==
    [kind |-> "none", confidence |-> 0, descriptionIsString |-> TRUE, affectedFilesIsArray |-> TRUE]

----------------------------------------------------------------------------
(* Commit hashes as git prints them: 40 lower-case hex characters.         *)

HexDigits == <<"0", "1", "2", "3", "4", "5", "6", "7", "8", "9", "a", "b", "c", "d", "e", "f">>
HexChars == {HexDigits[i] : i \in 1..16} \cup {"A", "B", "C", "D", "E", "F"}

HashOf(n) ==
    [i \in 1..MaxHashLen |->
        IF i = MaxHashLen THEN HexDigits[(n % 16) + 1]
        ELSE IF i = MaxHashLen - 1 THEN HexDigits[((n \div 16) % 16) + 1]
        ELSE "c"]

HeadParentRef == <<"H", "E", "A", "D", "~", "1">>

----------------------------------------------------------------------------
(* The world record: the mutable variables as one value, plus ret, the     *)
(* return value of the last helper that returns one.                       *)

World ==
    [isRunning |-> isRunning, currentRun |-> currentRun, history |-> history,
     stats |-> stats, runs |-> runs, emitted |-> <<>>, evOpen |-> evOpen,
     gitLog |-> gitLog, tree |-> tree, nextCommit |-> nextCommit,
     client |-> client, ret |-> 0, thrown |-> FALSE]

StorePipeline(w) ==
    /\ isRunning' = w.isRunning
    /\ currentRun' = w.currentRun
    /\ history' = w.history
    /\ stats' = w.stats
    /\ runs' = w.runs
    /\ emitted' = w.emitted
    /\ evOpen' = w.evOpen
    /\ gitLog' = w.gitLog
    /\ tree' = w.tree
    /\ nextCommit' = w.nextCommit
    /\ client' = w.client
    /\ UNCHANGED <<isRepo, apiKeyEnv, disk, changedFiles, cmd>>

(* a step of the pipeline alone *)
Store(w) == StorePipeline(w) /\ UNCHANGED <<hook, fix, req>>

SetRun(w, r, f, v) == [w EXCEPT !.runs[r][f] = v]
Bump(w, f) == [w EXCEPT !.stats[f] = @ + 1]

----------------------------------------------------------------------------
(* Events *)

Event(type, r, stage, msg) == [type |-> type, runId |-> r, stage |-> stage, msg |-> msg]

emit(w, e) ==
    [w EXCEPT !.emitted = Append(@, e),
              !.evOpen = IF e.type = "start" THEN @ \cup {e.runId}
                         ELSE IF e.type = "complete" THEN @ \ {e.runId}
                         ELSE @]

(* updateStage that notifies only the 'update' listeners *)
updateStageSilent(w, r, stage) ==
    LET w1 == SetRun(SetRun(w, r, "status", stage), r, "seen", w.runs[r].seen \cup {stage})
    IN  emit(w1, Event("update", r, stage, <<>>))

(* pipeline.ts 175-180 *)
updateStage(w, r, stage) ==
    LET w1 == SetRun(SetRun(w, r, "status", stage), r, "seen", w.runs[r].seen \cup {stage})
        w2 == emit(w1, Event("stage", r, stage, <<>>))
    IN  emit(w2, Event("update", r, stage, <<>>))

log(w, r, msg) == emit(w, Event("log", r, w.runs[r].status, msg))

----------------------------------------------------------------------------
(* git.ts *)

Lower(c) ==
    CASE c = "A" -> "a" [] c = "B" -> "b" [] c = "C" -> "c"
      [] c = "D" -> "d" [] c = "E" -> "e" [] c = "F" -> "f" [] OTHER -> c

IsPrefixOf(ref, full) ==
    /\ Len(ref) <= Len(full)
    /\ \A i \in 1..Len(ref) : Lower(ref[i]) = full[i]

HeadCommit(w) == IF w.gitLog = <<>> THEN 0 ELSE w.gitLog[Len(w.gitLog)].id

getGitStatus(w) ==
    [isRepo |-> isRepo, hasChanges |-> isRepo /\ w.tree # {}]

(* createSnapshot that records the first commit of the branch *)
createSnapshotRoot(w) ==
    IF ~getGitStatus(w).isRepo THEN 0 ELSE w.gitLog[1].id

(* git.ts 61-76 *)
createSnapshot(w) ==
    IF ~getGitStatus(w).isRepo THEN 0 ELSE HeadCommit(w)

getChangedFiles(w) == IF isRepo THEN w.tree ELSE {}

(* git add -A; git commit; git rev-parse HEAD: null outside a repository    *)
(* and when there is nothing to commit                                     *)
commitChanges(w) ==
    IF isRepo /\ w.tree # {}
    THEN [w EXCEPT !.gitLog = Append(@, [id |-> w.nextCommit, changes |-> w.tree]),
                   !.tree = {},
                   !.nextCommit = @ + 1,
                   !.ret = w.nextCommit]
    ELSE [w EXCEPT !.ret = 0]

(* /^[a-f0-9]{7,40}$/i *)
ValidHash(ref) ==
    /\ Len(ref) >= MinHashLen
    /\ Len(ref) <= MaxHashLen
    /\ \A i \in 1..Len(ref) : ref[i] \in HexChars

(* git reset --hard <ref>: position on the branch the ref names, 0 if git   *)
(* cannot resolve it.                                                      *)
ResolveRef(w, ref) ==
    IF ref = HeadParentRef
    THEN (IF Len(w.gitLog) >= 2 THEN Len(w.gitLog) - 1 ELSE 0)
    ELSE LET hits == {i \in 1..Len(w.gitLog) : IsPrefixOf(ref, HashOf(w.gitLog[i].id))}
         IN  IF Cardinality(hits) = 1 THEN CHOOSE i \in hits : TRUE ELSE 0

gitResetHard(w, ref) ==
    LET i == ResolveRef(w, ref)
    IN  IF isRepo /\ i > 0
        THEN [w EXCEPT !.gitLog = SubSeq(@, 1, i), !.tree = {}, !.ret = TRUE]
        ELSE [w EXCEPT !.ret = FALSE]

(* rollback that hands every string to git *)
rollbackUnchecked(w, ref) == gitResetHard(w, ref)

rollback(w, ref) ==
    IF ~ValidHash(ref) THEN [w EXCEPT !.ret = FALSE] ELSE gitResetHard(w, ref)

discardChanges(w) ==
    IF isRepo THEN [w EXCEPT !.tree = {}, !.ret = TRUE] ELSE [w EXCEPT !.ret = FALSE]

----------------------------------------------------------------------------
(* Paths are strings: sequences of one-character strings.  path.resolve,   *)
(* path.join and String.startsWith are computed on the characters.         *)

Sep == "/"

RECURSIVE SplitFrom(_, _, _, _)
SplitFrom(s, i, cur, acc) ==
    IF i > Len(s) THEN Append(acc, cur)
    ELSE IF s[i] = Sep THEN SplitFrom(s, i + 1, <<>>, Append(acc, cur))
    ELSE SplitFrom(s, i + 1, Append(cur, s[i]), acc)

(* the components of a path, empty ones included *)
Split(s) == SplitFrom(s, 1, <<>>, <<>>)

RECURSIVE NormFrom(_, _, _)
NormFrom(parts, i, acc) ==
    IF i > Len(parts) THEN acc
    ELSE IF parts[i] = <<>> \/ parts[i] = <<".">> THEN NormFrom(parts, i + 1, acc)
    ELSE IF parts[i] = <<".", ".">>
    THEN NormFrom(parts, i + 1, IF acc = <<>> THEN acc ELSE SubSeq(acc, 1, Len(acc) - 1))
    ELSE NormFrom(parts, i + 1, Append(acc, parts[i]))

(* the components of an absolute path with . and .. resolved lexically *)
Parts(s) == NormFrom(Split(s), 1, <<>>)

RECURSIVE JoinParts(_)
JoinParts(parts) ==
    IF parts = <<>> THEN <<>> ELSE <<Sep>> \o parts[1] \o JoinParts(Tail(parts))

pathIsAbsolute(s) == Len(s) > 0 /\ s[1] = Sep

(* path.join(a, b); its normalisation is left to the path.resolve that follows *)
pathJoin(a, b) == a \o <<Sep>> \o b

(* path.resolve of an absolute path *)
pathResolve(s) == IF Parts(s) = <<>> THEN <<Sep>> ELSE JoinParts(Parts(s))

StartsWith(s, prefix) ==
    /\ Len(prefix) <= Len(s)
    /\ SubSeq(s, 1, Len(prefix)) = prefix

Null == <<>>

(* mcp.ts 762-773 *)
safeResolvePath(filePath, projectRoot) ==
    LET fullPath == IF pathIsAbsolute(filePath) THEN filePath ELSE pathJoin(projectRoot, filePath)
        resolved == pathResolve(fullPath)
        resolvedRoot == pathResolve(projectRoot)
    IN  IF ~StartsWith(resolved, resolvedRoot \o <<Sep>>) /\ resolved # resolvedRoot
        THEN Null
        ELSE resolved

----------------------------------------------------------------------------
(* The file system: the project root /p holds a file a, a directory s and   *)
(* a symbolic link l to the directory /o outside the root; /pq is a        *)
(* sibling of the root.                                                    *)

ProjectRoot == <<"/", "p">>

LinkFrom == << <<"p">>, <<"l">> >>
LinkTo == << <<"o">> >>

InitialDisk ==
    [dirs |-> {<<>>, << <<"p">> >>, << <<"o">> >>, << <<"p">>, <<"s">> >>},
     files |-> {<< <<"p">>, <<"a">> >>, << <<"o">>, <<"x">> >>},
     edited |-> {}]

(* the file or directory the operating system reaches for a path: links followed *)
realpath(parts) ==
    IF Len(parts) >= Len(LinkFrom) /\ SubSeq(parts, 1, Len(LinkFrom)) = LinkFrom
    THEN LinkTo \o SubSeq(parts, Len(LinkFrom) + 1, Len(parts))
    ELSE parts

pathDirname(parts) == IF parts = <<>> THEN parts ELSE SubSeq(parts, 1, Len(parts) - 1)

existsSync(d, parts) == realpath(parts) \in d.dirs \cup d.files

Prefixes(parts) == {SubSeq(parts, 1, n) : n \in 0..Len(parts)}

(* fs.mkdirSync(dir, {recursive: true}): ok is FALSE when it throws *)
mkdirSync(d, parts) ==
    LET real == realpath(parts)
    IN  IF Prefixes(real) \cap d.files # {}
        THEN [disk |-> d, ok |-> FALSE]
        ELSE [disk |-> [d EXCEPT !.dirs = @ \cup Prefixes(real)], ok |-> TRUE]

(* fs.writeFileSync(path, content): ok is FALSE when it throws *)
writeFileSync(d, parts) ==
    LET real == realpath(parts)
    IN  IF real \in d.dirs \/ pathDirname(real) \notin d.dirs
        THEN [disk |-> d, ok |-> FALSE]
        ELSE [disk |-> [d EXCEPT !.files = @ \cup {real}, !.edited = @ \cup {real}],
              ok |-> TRUE]

(* one iteration of the loop of applyEdits, server.ts 1140-1161 *)
applyEdit(st, file, projectRoot) ==
    LET safePath == safeResolvePath(file, projectRoot)
        dir == pathDirname(Parts(safePath))
        made == IF ~existsSync(st.disk, dir) THEN mkdirSync(st.disk, dir)
                ELSE [disk |-> st.disk, ok |-> TRUE]
        wrote == writeFileSync(made.disk, Parts(safePath))
    IN  IF safePath = Null THEN st
        ELSE IF ~made.ok THEN [st EXCEPT !.disk = made.disk]
        ELSE IF ~wrote.ok THEN [st EXCEPT !.disk = wrote.disk]
        ELSE [disk |-> wrote.disk, changed |-> Append(st.changed, file)]

RECURSIVE applyEditsFrom(_, _, _, _)
applyEditsFrom(st, edits, i, projectRoot) ==
    IF i > Len(edits) THEN st
    ELSE applyEditsFrom(applyEdit(st, edits[i], projectRoot), edits, i + 1, projectRoot)

(* server.ts 1134-1164 *)
applyEdits(d, edits, projectRoot) ==
    applyEditsFrom([disk |-> d, changed |-> <<>>], edits, 1, projectRoot)

(* edit targets an oracle answer may name *)
EditTargets ==
    { <<"a">>,                                      \* a
      <<"d", "/", "a">>,                            \* d/a
      <<".", ".", "/", "e">>,                       \* ../e
      <<"/", "e">>,                                 \* /e
      <<"/", "p", "/", "b">>,                       \* /p/b
      <<"/", "p", "q">>,                            \* /pq
      <<"l", "/", "x">>,                            \* l/x
      <<".">>,                                      \* .
      <<".", ".", "/", "p", "/", "c">>,             \* ../p/c
      <<"s", "/", ".", ".", "/", ".", ".", "/", "e">> }  \* s/../../e

EditLists ==
    UNION {[1..n -> EditTargets] : n \in 0..MaxEdits}

----------------------------------------------------------------------------
(* pipeline.ts 84-148: executeCommand.  proc is the child process as the    *)
(* operating system sees it: "running", "exited" (it ended by itself),      *)
(* "terminated" (it ended after the timer's SIGTERM) or "spawnFailed";      *)
(* pipesOpen says that its stdio pipes are still open, which they stay      *)
(* after its exit for as long as a process it started holds them.  The      *)
(* 'close' event comes after the process has ended and the pipes are        *)
(* closed.                                                                  *)

(* no request was made *)
NoReq == [fn |-> "none"]

NoResult == [success |-> FALSE, exitCode |-> 0, stdout |-> <<>>, stderr |-> <<>>, set |-> FALSE]

NoCmd ==
    [proc |-> "none", code |-> 0, bySignal |-> FALSE, pipesOpen |-> FALSE, killed |-> FALSE,
     timer |-> "none", closed |-> FALSE, stdout |-> <<>>, stderr |-> <<>>, result |-> NoResult]

TimeoutSentinel == "[TIMEOUT] Command exceeded time limit"
SpawnErrorMessage == "spawn ENOENT"

(* resolve(value) of the promise: only the first call settles it *)
resolve(c, value) ==
    IF c.result.set THEN c ELSE [c EXCEPT !.result = [value EXCEPT !.set = TRUE]]

(* proc.on('error'), lines 137-146 *)
onError(c) ==
    LET c1 == [c EXCEPT !.timer = IF @ = "armed" THEN "cleared" ELSE @]
    IN  resolve(c1, [success |-> FALSE, exitCode |-> -1, stdout |-> c1.stdout,
                     stderr |-> c1.stderr \o <<"\n", SpawnErrorMessage>>, set |-> TRUE])

(* lines 90-124: spawn, the handlers and the timer; a failed spawn emits    *)
(* 'error' on the next tick, before any timer can run                       *)
executeCommand(spawned) ==
    IF spawned
    THEN [NoCmd EXCEPT !.proc = "running", !.pipesOpen = TRUE, !.timer = "armed"]
    ELSE onError([NoCmd EXCEPT !.proc = "spawnFailed", !.timer = "armed"])

(* proc.stdout.on('data'), lines 103-107 *)
onStdoutData(c) == [c EXCEPT !.stdout = Append(@, "out")]

(* proc.stderr.on('data'), lines 109-113 *)
onStderrData(c) == [c EXCEPT !.stderr = Append(@, "err")]

(* the setTimeout callback, lines 115-124 *)
onTimeout(c) ==
    LET c1 == [c EXCEPT !.timer = "fired", !.killed = (c.proc = "running")]
    IN  resolve(c1, [success |-> FALSE, exitCode |-> -1, stdout |-> c1.stdout,
                     stderr |-> c1.stderr \o <<"\n", TimeoutSentinel>>, set |-> TRUE])

(* onClose that forgets clearTimeout *)
onCloseKeepsTimer(c) ==
    LET c1 == [c EXCEPT !.closed = TRUE]
    IN  resolve(c1, [success |-> ~c1.bySignal /\ c1.code = 0,
                     exitCode |-> IF c1.bySignal THEN -1 ELSE c1.code,
                     stdout |-> c1.stdout, stderr |-> c1.stderr, set |-> TRUE])

(* proc.on('close'), lines 126-135 *)
onClose(c) ==
    LET c1 == [c EXCEPT !.closed = TRUE, !.timer = IF @ = "armed" THEN "cleared" ELSE @]
    IN  resolve(c1, [success |-> ~c1.bySignal /\ c1.code = 0,
                     exitCode |-> IF c1.bySignal THEN -1 ELSE c1.code,
                     stdout |-> c1.stdout, stderr |-> c1.stderr, set |-> TRUE])

----------------------------------------------------------------------------
(* pipeline.ts: end of a run *)

finishRun(w, r) ==
    LET w1 == SetRun(w, r, "completions", w.runs[r].completions + 1)
        w2 == [w1 EXCEPT !.isRunning = FALSE,
                         !.currentRun = 0,
                         !.history = <<r>> \o @]
        w3 == IF Len(w2.history) > HistoryCap
              THEN [w2 EXCEPT !.history = SubSeq(@, 1, HistoryCap)]
              ELSE w2
    IN  emit(w3, Event("complete", r, w3.runs[r].status, <<>>))

(* stopPipeline that marks the run but forgets to finish it *)
stopPipelineKeepsLock(w) ==
    IF ~w.isRunning \/ w.currentRun = 0
    THEN [w EXCEPT !.ret = FALSE]
    ELSE LET r == w.currentRun
             w1 == SetRun(w, r, "status", "failed")
             w2 == SetRun(w1, r, "error", "Manually stopped")
         IN  [w2 EXCEPT !.ret = TRUE]

stopPipeline(w) ==
    IF ~w.isRunning \/ w.currentRun = 0
    THEN [w EXCEPT !.ret = FALSE]
    ELSE LET r == w.currentRun
             w1 == SetRun(w, r, "status", "failed")
             w2 == SetRun(w1, r, "error", "Manually stopped")
         IN  [finishRun(w2, r) EXCEPT !.ret = TRUE]

RollbackHint(prefix, n) == <<Lit(prefix), Lit("git reset --hard"), HashTok(n)>>

(* catch block that records the error but does not finish the run *)
catchErrorKeepsLock(w, r, message) ==
    LET w1 == SetRun(w, r, "status", "failed")
        w2 == SetRun(w1, r, "success", FALSE)
        w3 == SetRun(w2, r, "error", message)
        w4 == Bump(w3, "failedRuns")
        w5 == log(w4, r, <<Lit("PIPELINE ERROR:"), Lit(message)>>)
        w6 == [SetRun(w5, r, "analysis", NoAnalysis) EXCEPT !.thrown = FALSE]
    IN  SetRun(w6, r, "pc", "done")

(* the catch block of runPipeline *)
catchError(w, r, message) ==
    LET w1 == SetRun(w, r, "status", "failed")
        w2 == SetRun(w1, r, "success", FALSE)
        w3 == SetRun(w2, r, "error", message)
        w4 == Bump(w3, "failedRuns")
        w5 == log(w4, r, <<Lit("PIPELINE ERROR:"), Lit(message)>>)
        w6 == IF w5.runs[r].snap # 0
              THEN log(w5, r, RollbackHint("To rollback:", w5.runs[r].snap))
              ELSE w5
        w7 == [SetRun(w6, r, "analysis", NoAnalysis) EXCEPT !.thrown = FALSE]
    IN  SetRun(finishRun(w7, r), r, "pc", "done")


----------------------------------------------------------------------------
(* analyzer: getClient throws when no client is cached and no key is given *)
(* by the configuration or the environment; ret is FALSE when it throws.   *)

getClient(w, apiKey) ==
    IF w.client THEN [w EXCEPT !.ret = TRUE]
    ELSE IF apiKey \/ apiKeyEnv THEN [w EXCEPT !.client = TRUE, !.ret = TRUE]
    ELSE [w EXCEPT !.ret = FALSE]

KeyError == "ANTHROPIC_API_KEY not set"

(* What the oracle may answer to analyzeFailure: JSON of the documented      *)
(* shape, JSON whose first hypothesis has a description that is no string,  *)
(* JSON whose affectedFiles is no array, text without JSON, JSON that does  *)
(* not parse, an empty answer, or no answer at all (the request fails).     *)
AnalysisReplies ==
    {"json", "jsonBadDescription", "jsonBadAffectedFiles", "text", "malformedJson",
     "empty", "networkError"}

(* What the oracle may answer to generateFixPrompt *)
PromptReplies == {"text", "noTextBlock", "networkError"}

(* default diagnosis that leaves affectedFiles out *)
createDefaultAnalysisNoFiles ==
    [kind |-> "default", confidence |-> 3, descriptionIsString |-> TRUE,
     affectedFilesIsArray |-> FALSE]

(* part_005 297-316; confidence in tenths *)
createDefaultAnalysis ==
    [kind |-> "default", confidence |-> 3, descriptionIsString |-> TRUE,
     affectedFilesIsArray |-> TRUE]

(* part_005 200-237: what analyzeFailure returns for an answer; the fields  *)
(* of parsed JSON are passed on as they are                                *)
analyzeFailureReturn(reply) ==
    CASE reply \in {"networkError", "malformedJson"} -> createDefaultAnalysis
      [] reply \in {"text", "empty"} -> createDefaultAnalysis
      [] reply = "json" ->
            [kind |-> "parsed", confidence |-> 7, descriptionIsString |-> TRUE,
             affectedFilesIsArray |-> TRUE]
      [] reply = "jsonBadDescription" ->
            [kind |-> "parsed", confidence |-> 7, descriptionIsString |-> FALSE,
             affectedFilesIsArray |-> TRUE]
      [] reply = "jsonBadAffectedFiles" ->
            [kind |-> "parsed", confidence |-> 7, descriptionIsString |-> TRUE,
             affectedFilesIsArray |-> FALSE]

SliceError == "analysis.hypotheses[0]?.description?.slice is not a function"
JoinError == "analysis.affectedFiles.join is not a function"

(* part_005 318-337: analysis.affectedFiles.join throws on a value that is   *)
(* no array; TRUE when it returns                                          *)
createFallbackPrompt(analysis) == analysis.affectedFilesIsArray

(* part_005 282-294: TRUE when generateFixPrompt returns a prompt, FALSE    *)
(* when it throws                                                          *)
generateFixPromptReturn(analysis, reply) ==
    IF reply = "text" THEN TRUE ELSE createFallbackPrompt(analysis)

(* the commit message of a fix, pipeline.ts 303 and 422: TRUE when the      *)
(* template evaluates, FALSE when description?.slice throws                 *)
commitMessage(analysis) == analysis.descriptionIsString

----------------------------------------------------------------------------
(* pipeline.ts: runPipeline, cut at its awaits *)

NewRun(r, cfg) ==
    [id |-> r, status |-> "idle", fixAttempts |-> <<>>, success |-> FALSE,
     summary |-> NoSummary, error |-> NoError, completions |-> 0,
     cfg |-> cfg, pc |-> "start", fixAttempt |-> 0, buildOk |-> FALSE,
     builds |-> 0, tests |-> 0,
     testOk |-> FALSE, repo |-> FALSE, snap |-> 0, commitHash |-> 0,
     filesChanged |-> {}, seen |-> {}, analysis |-> NoAnalysis]

(* await executeCommand(...): the Run waits at pc for the command to       *)
(* return; builds and tests count the executions of the build command and *)
(* of the test command                                                     *)
startCommand(w, r, pc) ==
    LET counter == IF pc \in {"test", "retest"} THEN "tests" ELSE "builds"
    IN  SetRun(SetRun(w, r, counter, w.runs[r][counter] + 1), r, "pc", pc)

(* lines 191-239: up to the first await *)
runPipeline(w, cfg) ==
    LET r == Len(w.runs) + 1
        w1 == [w EXCEPT !.runs = Append(@, NewRun(r, cfg)),
                        !.isRunning = TRUE,
                        !.currentRun = r,
                        !.stats.totalRuns = @ + 1]
        w2 == emit(w1, Event("start", r, "idle", <<>>))
        gitStatus == IF cfg.gitEnabled THEN getGitStatus(w2)
                     ELSE [isRepo |-> FALSE, hasChanges |-> FALSE]
        w3 == SetRun(w2, r, "repo", gitStatus.isRepo)
        w4 == IF gitStatus.isRepo
              THEN LET a == log(w3, r, <<Lit("Git repo detected")>>)
                       b == IF gitStatus.hasChanges
                            THEN log(a, r, <<Lit("Warning: uncommitted changes")>>)
                            ELSE a
                       c == SetRun(b, r, "snap", createSnapshot(b))
                   IN  IF c.runs[r].snap # 0
                       THEN log(c, r, <<Lit("Created snapshot at"), HashTok(c.runs[r].snap)>>)
                       ELSE c
              ELSE w3
        w5 == log(w4, r, <<Lit("Starting build")>>)
        w6 == updateStage(w5, r, "building")
    IN  startCommand(w6, r, "build")

(* buildFailed that prints the rollback hint whether or not a snapshot exists *)
buildFailedAlwaysHint(w, r) ==
    LET w1 == SetRun(w, r, "status", "failed")
        w2 == SetRun(w1, r, "success", FALSE)
        w3 == SetRun(w2, r, "error", "Build failed after all fix attempts")
        w4 == SetRun(w3, r, "summary",
                     <<Lit("Build failed."), NumTok(w.runs[r].fixAttempt), Lit("fix attempts made.")>>)
        w5 == Bump(w4, "failedRuns")
        w6 == log(w5, r, <<Lit("PIPELINE FAILED:"), Lit(w5.runs[r].error)>>)
        w7 == log(w6, r, RollbackHint("To rollback:", w6.runs[r].snap))
    IN  SetRun(finishRun(w7, r), r, "pc", "done")

(* lines 348-362 *)
buildFailed(w, r) ==
    LET w1 == SetRun(w, r, "status", "failed")
        w2 == SetRun(w1, r, "success", FALSE)
        w3 == SetRun(w2, r, "error", "Build failed after all fix attempts")
        w4 == SetRun(w3, r, "summary",
                     <<Lit("Build failed."), NumTok(w.runs[r].fixAttempt), Lit("fix attempts made.")>>)
        w5 == Bump(w4, "failedRuns")
        w6 == log(w5, r, <<Lit("PIPELINE FAILED:"), Lit(w5.runs[r].error)>>)
        w7 == IF w6.runs[r].snap # 0
              THEN log(w6, r, RollbackHint("To rollback:", w6.runs[r].snap))
              ELSE w6
    IN  SetRun(finishRun(w7, r), r, "pc", "done")

(* testsFailed that keeps the rollback hint to itself *)
testsFailedNoHint(w, r) ==
    LET w1 == SetRun(w, r, "status", "failed")
        w2 == SetRun(w1, r, "success", FALSE)
        w3 == SetRun(w2, r, "error", "Tests failed after all fix attempts")
        w4 == SetRun(w3, r, "summary",
                     <<Lit("Tests failed."), NumTok(w.runs[r].fixAttempt), Lit("fix attempts. Build OK.")>>)
        w5 == Bump(w4, "failedRuns")
        w6 == log(w5, r, <<Lit("PIPELINE FAILED:"), Lit(w5.runs[r].error)>>)
    IN  SetRun(finishRun(w6, r), r, "pc", "done")

(* lines 470-483 *)
testsFailed(w, r) ==
    LET w1 == SetRun(w, r, "status", "failed")
        w2 == SetRun(w1, r, "success", FALSE)
        w3 == SetRun(w2, r, "error", "Tests failed after all fix attempts")
        w4 == SetRun(w3, r, "summary",
                     <<Lit("Tests failed."), NumTok(w.runs[r].fixAttempt), Lit("fix attempts. Build OK.")>>)
        w5 == Bump(w4, "failedRuns")
        w6 == log(w5, r, <<Lit("PIPELINE FAILED:"), Lit(w5.runs[r].error)>>)
        w7 == IF w6.runs[r].snap # 0
              THEN log(w6, r, RollbackHint("To rollback all fixes:", w6.runs[r].snap))
              ELSE w6
    IN  SetRun(finishRun(w7, r), r, "pc", "done")

(* lines 488-495 *)
succeed(w, r) ==
    LET w1 == SetRun(w, r, "status", "complete")
        w2 == SetRun(w1, r, "success", TRUE)
        w3 == SetRun(w2, r, "summary",
                     <<Lit("Pipeline complete. Build: OK")>>
                     \o (IF w.runs[r].cfg.runTests THEN <<Lit(", Tests: OK")>> ELSE <<>>)
                     \o <<NumTok(Len(w.runs[r].fixAttempts)), Lit("fixes applied.")>>)
        w4 == Bump(w3, "successfulRuns")
        w5 == log(w4, r, <<Lit("PIPELINE SUCCESS:")>> \o w4.runs[r].summary)
    IN  SetRun(finishRun(w5, r), r, "pc", "done")

(* await analyzeFailure(...): the call itself; it throws into the catch    *)
(* block when getClient does                                               *)
analyzeFailure(w, r, pcNext) ==
    LET w1 == getClient(w, w.runs[r].cfg.anthropicApiKey)
    IN  IF w1.ret THEN SetRun(w1, r, "pc", pcNext) ELSE catchError(w1, r, KeyError)

(* lines 364-376 *)
afterBuild(w, r) ==
    LET w1 == log(w, r, <<Lit("Build successful!")>>)
    IN  IF w1.runs[r].cfg.runTests
        THEN LET w2 == log(w1, r, <<Lit("Starting tests")>>)
                 w3 == updateStage(w2, r, "testing")
             IN  startCommand(w3, r, "test")
        ELSE succeed(w1, r)

(* buildLoop with the budget test off by one *)
buildLoopOffByOne(w0, r) ==
    LET w == SetRun(w0, r, "analysis", NoAnalysis)
        run == w.runs[r]
    IN  IF ~run.buildOk /\ run.fixAttempt <= run.cfg.maxFixAttempts /\ run.cfg.autoFix
        THEN LET w1 == SetRun(w, r, "fixAttempt", run.fixAttempt + 1)
                 w2 == Bump(w1, "totalFixAttempts")
                 w3 == log(w2, r, <<Lit("Build failed. Fix attempt"), NumTok(run.fixAttempt + 1)>>)
                 w4 == updateStage(w3, r, "analyzing")
                 w5 == log(w4, r, <<Lit("Analyzing failure")>>)
             IN  analyzeFailure(w5, r, "analyze")
        ELSE IF ~run.buildOk THEN buildFailed(w, r)
        ELSE afterBuild(w, r)

(* lines 244-259 and 346-364: the head of the build fix loop and its exits *)
buildLoop(w0, r) ==
    LET w == SetRun(w0, r, "analysis", NoAnalysis)
        run == w.runs[r]
    IN  IF ~run.buildOk /\ run.fixAttempt < run.cfg.maxFixAttempts /\ run.cfg.autoFix
        THEN LET w1 == SetRun(w, r, "fixAttempt", run.fixAttempt + 1)
                 w2 == Bump(w1, "totalFixAttempts")
                 w3 == log(w2, r, <<Lit("Build failed. Fix attempt"), NumTok(run.fixAttempt + 1)>>)
                 w4 == updateStage(w3, r, "analyzing")
                 w5 == log(w4, r, <<Lit("Analyzing failure")>>)
             IN  analyzeFailure(w5, r, "analyze")
        ELSE IF ~run.buildOk THEN buildFailed(w, r)
        ELSE afterBuild(w, r)

(* lines 381-394 and 468-495: the head of the test fix loop and its exits *)
testLoop(w0, r) ==
    LET w == SetRun(w0, r, "analysis", NoAnalysis)
        run == w.runs[r]
    IN  IF ~run.testOk /\ run.fixAttempt < run.cfg.maxFixAttempts /\ run.cfg.autoFix
        THEN LET w1 == SetRun(w, r, "fixAttempt", run.fixAttempt + 1)
                 w2 == Bump(w1, "totalFixAttempts")
                 w3 == log(w2, r, <<Lit("Tests failed. Fix attempt"), NumTok(run.fixAttempt + 1)>>)
                 w4 == updateStage(w3, r, "analyzing")
                 w5 == log(w4, r, <<Lit("Analyzing test failure")>>)
             IN  analyzeFailure(w5, r, "tanalyze")
        ELSE IF ~run.testOk THEN testsFailed(w, r)
        ELSE succeed(log(w, r, <<Lit("All tests passed!")>>), r)

(* runClaudeCode: the edit-applier changes the working tree, or changes nothing *)
runClaudeCode(w, edits) == [w EXCEPT !.tree = @ \cup edits]

FixAttemptRecord(run, ok) ==
    [attempt |-> run.fixAttempt, success |-> ok, commitHash |-> run.commitHash,
     filesChanged |-> run.filesChanged]


generateFixPrompt(w, r, pcNext) ==
    LET w1 == getClient(w, w.runs[r].cfg.anthropicApiKey)
    IN  IF w1.ret THEN SetRun(w1, r, "pc", pcNext) ELSE catchError(w1, r, KeyError)

(* line 241 *)
onBuildDone(w, r, ok) == buildLoop(SetRun(w, r, "buildOk", ok), r)

(* lines 254-273 *)
onAnalyzeDone(w, r, reply) ==
    LET w0 == SetRun(w, r, "analysis", analyzeFailureReturn(reply))
        w1 == log(w0, r, <<Lit("Analysis:")>>)
        w2 == updateStage(w1, r, "fixing")
    IN  generateFixPrompt(w2, r, "genfix")

(* lines 288-310: track git changes of a build fix *)
trackBuildFix(w, r) ==
    LET run == w.runs[r]
    IN  IF run.repo /\ run.cfg.gitEnabled
        THEN LET files == getChangedFiles(w)
                 w1 == SetRun(w, r, "filesChanged", files)
             IN  IF files # {}
                 THEN LET w2 == log(w1, r, <<Lit("Changed files:")>>)
                      IN  IF run.cfg.gitCommitFixes
                          THEN IF ~commitMessage(run.analysis)
                               THEN [w2 EXCEPT !.thrown = TRUE]
                               ELSE LET w3 == commitChanges(w2)
                                        w4 == SetRun(w3, r, "commitHash", w3.ret)
                                    IN  IF w3.ret # 0
                                        THEN log(w4, r, <<Lit("Committed fix:"), HashTok(w3.ret)>>)
                                        ELSE w4
                          ELSE w2
                 ELSE w1
        ELSE w

(* lines 268-321 *)
onFixPromptDone(w, r, reply, edits) ==
    LET run == w.runs[r]
        w1 == log(w, r, <<Lit("Generated fix prompt")>>)
        w2 == IF run.cfg.useClaudeCode
              THEN LET a == log(w1, r, <<Lit("Running Claude Code to apply fix...")>>)
                       b == runClaudeCode(a, edits)
                   IN  log(b, r, <<Lit("Claude Code completed")>>)
              ELSE LET a == log(w1, r, <<Lit("Claude Code disabled")>>)
                   IN  log(a, r, <<Lit("FIX PROMPT:")>>)
        w3 == SetRun(SetRun(w2, r, "commitHash", 0), r, "filesChanged", {})
        w4 == trackBuildFix(w3, r)
        w5 == updateStage(w4, r, "verifying")
        w6 == log(w5, r, <<Lit("Verifying fix...")>>)
    IN  IF ~generateFixPromptReturn(run.analysis, reply) THEN catchError(w, r, JoinError)
        ELSE IF w4.thrown THEN catchError(w4, r, SliceError)
        ELSE startCommand(w6, r, "verify")

(* onVerifyDone that records an attempt only when its verification failed *)
onVerifyDoneDropsSuccess(w, r, ok) ==
    LET run == w.runs[r]
        w1 == IF ok THEN w
              ELSE SetRun(w, r, "fixAttempts", Append(run.fixAttempts, FixAttemptRecord(run, ok)))
        w2 == SetRun(w1, r, "buildOk", ok)
        w3 == IF ok
              THEN log(Bump(w2, "successfulFixes"), r, <<Lit("Build FIXED on attempt"), NumTok(run.fixAttempt)>>)
              ELSE IF run.snap # 0 /\ run.cfg.gitEnabled /\ ~run.cfg.gitCommitFixes
              THEN discardChanges(log(w2, r, <<Lit("Fix failed, discarding changes...")>>))
              ELSE w2
    IN  buildLoop(w3, r)

(* lines 323-346, then the loop head *)
onVerifyDone(w, r, ok) ==
    LET run == w.runs[r]
        w1 == SetRun(w, r, "fixAttempts", Append(run.fixAttempts, FixAttemptRecord(run, ok)))
        w2 == SetRun(w1, r, "buildOk", ok)
        w3 == IF ok
              THEN log(Bump(w2, "successfulFixes"), r, <<Lit("Build FIXED on attempt"), NumTok(run.fixAttempt)>>)
              ELSE IF run.snap # 0 /\ run.cfg.gitEnabled /\ ~run.cfg.gitCommitFixes
              THEN discardChanges(log(w2, r, <<Lit("Fix failed, discarding changes...")>>))
              ELSE w2
    IN  buildLoop(w3, r)

(* lines 378-381 *)
onTestDone(w, r, ok) ==
    testLoop(SetRun(SetRun(w, r, "testOk", ok), r, "fixAttempt", 0), r)

(* lines 389-402 *)
onTestAnalyzeDone(w, r, reply) ==
    LET w0 == SetRun(w, r, "analysis", analyzeFailureReturn(reply))
    IN  generateFixPrompt(updateStage(w0, r, "fixing"), r, "tgenfix")

(* lines 410-428: track git changes of a test fix *)
trackTestFix(w, r) ==
    LET run == w.runs[r]
    IN  IF run.repo /\ run.cfg.gitEnabled
        THEN LET files == getChangedFiles(w)
                 w1 == SetRun(w, r, "filesChanged", files)
             IN  IF files # {} /\ run.cfg.gitCommitFixes
                 THEN IF ~commitMessage(run.analysis)
                      THEN [w1 EXCEPT !.thrown = TRUE]
                      ELSE LET w2 == commitChanges(w1)
                               w3 == SetRun(w2, r, "commitHash", w2.ret)
                           IN  IF w2.ret # 0
                               THEN log(w3, r, <<Lit("Committed test fix:"), HashTok(w2.ret)>>)
                               ELSE w3
                 ELSE w1
        ELSE w

(* lines 397-432 *)
onTestFixPromptDone(w, r, reply, edits) ==
    LET run == w.runs[r]
        w1 == IF run.cfg.useClaudeCode
              THEN runClaudeCode(log(w, r, <<Lit("Running Claude Code to apply fix...")>>), edits)
              ELSE w
        w2 == SetRun(SetRun(w1, r, "commitHash", 0), r, "filesChanged", {})
        w3 == trackTestFix(w2, r)
        w4 == updateStage(w3, r, "verifying")
    IN  IF ~generateFixPromptReturn(run.analysis, reply) THEN catchError(w, r, JoinError)
        ELSE IF w3.thrown THEN catchError(w3, r, SliceError)
        ELSE startCommand(w4, r, "rebuild")

(* lines 434-441: the regression guard *)
regressionGuard(w, r) ==
    LET run == w.runs[r]
        w1 == log(w, r, <<Lit("Fix broke the build! Rolling back...")>>)
    IN  IF run.repo /\ run.commitHash # 0 THEN rollback(w1, HeadParentRef) ELSE w1

(* lines 432-448 *)
onRebuildDone(w, r, ok) ==
    IF ~ok THEN testLoop(regressionGuard(w, r), r)
    ELSE startCommand(w, r, "retest")

(* lines 450-468, then the loop head *)
onRetestDone(w, r, ok) ==
    LET run == w.runs[r]
        w1 == SetRun(w, r, "fixAttempts", Append(run.fixAttempts, FixAttemptRecord(run, ok)))
        w2 == SetRun(w1, r, "testOk", ok)
        w3 == IF ok
              THEN log(Bump(w2, "successfulFixes"), r, <<Lit("Tests FIXED on attempt"), NumTok(run.fixAttempt)>>)
              ELSE w2
    IN  testLoop(w3, r)

----------------------------------------------------------------------------
(* Front doors *)

Defaults ==
    [maxFixAttempts |-> DefaultMaxFixAttempts, autoFix |-> TRUE, runTests |-> TRUE,
     useClaudeCode |-> TRUE, gitEnabled |-> TRUE, gitCommitFixes |-> TRUE,
     anthropicApiKey |-> FALSE, runLint |-> FALSE, gitCommitFixesGiven |-> FALSE]

(* request bodies of POST /api/run after validation; every body names each  *)
(* option itself (gitCommitFixesGiven)                                      *)
Bodies ==
    [maxFixAttempts : 0..MaxFix, autoFix : BOOLEAN, runTests : BOOLEAN,
     useClaudeCode : BOOLEAN, gitEnabled : BOOLEAN, gitCommitFixes : BOOLEAN,
     runLint : BOOLEAN]

(* bodies that leave runLint at its default *)
NoLintBodies == {b \in Bodies : ~b.runLint}

SmallBodies ==
    {b \in NoLintBodies : b.autoFix /\ b.runTests /\ b.useClaudeCode /\ b.gitEnabled
                           /\ b.gitCommitFixes /\ b.maxFixAttempts = 1}

(* bodies of a Run that builds once and ends *)
BuildOnlyBodies ==
    {b \in NoLintBodies : ~b.autoFix /\ ~b.runTests /\ b.useClaudeCode /\ b.gitEnabled
                           /\ b.gitCommitFixes /\ b.maxFixAttempts = 0}

(* bodies that set runLint and runTests either way, the other options on *)
LintBodies ==
    {b \in Bodies : b.useClaudeCode /\ b.gitEnabled /\ b.gitCommitFixes}

HttpConfig(body) ==
    [maxFixAttempts |-> body.maxFixAttempts, autoFix |-> body.autoFix,
     runTests |-> body.runTests, useClaudeCode |-> body.useClaudeCode,
     gitEnabled |-> body.gitEnabled, gitCommitFixes |-> body.gitCommitFixes,
     anthropicApiKey |-> FALSE, runLint |-> body.runLint, gitCommitFixesGiven |-> TRUE]

(* pipeline.ts quickRun, lines 546-568 *)
quickRun(w) == runPipeline(w, [Defaults EXCEPT !.gitEnabled = TRUE, !.gitCommitFixes = TRUE])

(* arguments of the MCP tool ui_debugger_run_pipeline *)
McpArgs == [autoFix : BOOLEAN, maxFixAttempts : 0..MaxFix]

SmallArgs == {a \in McpArgs : a.autoFix /\ a.maxFixAttempts = 1}

McpConfig(args) ==
    [Defaults EXCEPT !.autoFix = args.autoFix, !.maxFixAttempts = args.maxFixAttempts]

Resp(code, runId) == [code |-> code, runId |-> runId]
NoResp == Resp(0, 0)

(* run objects the model may still allocate *)
CanAllocate == Len(runs) < MaxRuns
(* the process has not started a run yet *)
FirstRun == runs = <<>>

(* apiRun without the single-flight check *)
apiRunNoGuard(w, rootOk, body) ==
    IF ~rootOk THEN [w EXCEPT !.ret = Resp(400, 0)]
    ELSE LET w1 == runPipeline(w, HttpConfig(body))
         IN  [w1 EXCEPT !.ret = Resp(200, w1.currentRun)]

(* POST /api/run *)
apiRun(w, rootOk, body) ==
    IF w.isRunning THEN [w EXCEPT !.ret = Resp(409, 0)]
    ELSE IF ~rootOk THEN [w EXCEPT !.ret = Resp(400, 0)]
    ELSE LET w1 == runPipeline(w, HttpConfig(body))
         IN  [w1 EXCEPT !.ret = Resp(200, w1.currentRun)]

(* POST /api/quick-run *)
apiQuickRun(w, rootOk) ==
    IF w.isRunning THEN [w EXCEPT !.ret = Resp(409, 0)]
    ELSE IF ~rootOk THEN [w EXCEPT !.ret = Resp(400, 0)]
    ELSE LET w1 == quickRun(w)
         IN  [w1 EXCEPT !.ret = Resp(200, w1.currentRun)]

(* POST /api/stop *)
apiStop(w) ==
    LET w1 == stopPipeline(w)
    IN  [w1 EXCEPT !.ret = IF w1.ret THEN Resp(200, 0) ELSE Resp(404, 0)]

(* MCP tool ui_debugger_run_pipeline *)
mcpRunPipeline(w, args) == [runPipeline(w, McpConfig(args)) EXCEPT !.ret = NoResp]

----------------------------------------------------------------------------
(* part_006: AutoHook.  A runHook call is "queued" while its setInterval    *)
(* timer polls the isRunning field, at "verify" while it awaits verify(),   *)
(* at "pipeline" while it awaits runPipeline(), and "done" when its promise *)
(* has resolved.                                                            *)

(* the AutoHook object, lines 57-71: watchers names the watchers whose      *)
(* cleanup is registered; debounceTimer is null, armed, fired or cleared;  *)
(* lastCommitHash is a commit id (0: null); notified is what the file      *)
(* watcher has reported of the working tree's changes                      *)
NoHook ==
    [isRunning |-> FALSE, runBuildFix |-> TRUE, apiKey |-> FALSE, calls |-> <<>>,
     watchers |-> {}, debounceTimer |-> "null", lastCommitHash |-> 0, notified |-> {}]

NewCall == [pc |-> "new", status |-> "none", run |-> 0, success |-> FALSE]

VerifyOutcomes == {"pass", "partial", "fail", "throws"}

(* the configuration runHook gives runPipeline, lines 194-201 *)
HookPipelineConfig(h) == [Defaults EXCEPT !.anthropicApiKey = h.apiKey]

(* runHook up to its first await, lines 138-173; x holds the world w and    *)
(* the hook object h                                                        *)
runHook(x, c) ==
    IF x.h.isRunning
    THEN [x EXCEPT !.h.calls[c].pc = "queued"]
    ELSE [x EXCEPT !.h.isRunning = TRUE, !.h.calls[c].pc = "verify"]

(* handleWebhook, lines 104-120 *)
handleWebhook(x) ==
    LET c == Len(x.h.calls) + 1
    IN  runHook([x EXCEPT !.h.calls = Append(@, NewCall)], c)

(* the setInterval callback, lines 146-151 *)
onCheckInterval(x, c) ==
    IF ~x.h.isRunning THEN runHook(x, c) ELSE x

(* the finally block, lines 232-234, and the resolution of the promise *)
hookFinally(x, c, success) ==
    [x EXCEPT !.h.isRunning = FALSE, !.h.calls[c].pc = "done", !.h.calls[c].success = success]

(* lines 186-203 and 210-231: after verify() *)
onVerified(x, c, status) ==
    LET x1 == [x EXCEPT !.h.calls[c].status = status]
    IN  IF status = "throws" THEN hookFinally(x1, c, FALSE)
        ELSE IF x1.h.runBuildFix /\ status # "pass"
        THEN LET w1 == runPipeline(x1.w, HookPipelineConfig(x1.h))
             IN  [x1 EXCEPT !.w = w1, !.h.calls[c].pc = "pipeline",
                            !.h.calls[c].run = Len(w1.runs)]
        ELSE hookFinally(x1, c, status = "pass" \/ status = "partial")

(* a trigger built by a watcher and handed to runHook, lines 318-326 and   *)
(* 373-382                                                                  *)
watcherTrigger(x) ==
    runHook([x EXCEPT !.h.calls = Append(@, NewCall)], Len(x.h.calls) + 1)

(* lines 292-331: fs.watch on the project, its close registered; changes   *)
(* made before the call are not reported                                   *)
startFileWatcher(x) ==
    [x EXCEPT !.h.watchers = @ \cup {"files"}, !.h.notified = x.w.tree]

(* lines 336-391: the first rev-parse, then the polling interval *)
startGitWatcher(x) ==
    IF ~isRepo THEN x
    ELSE [x EXCEPT !.h.lastCommitHash = HeadCommit(x.w), !.h.watchers = @ \cup {"git"}]

(* lines 75-89 *)
start(x, watchFiles, watchGit) ==
    LET x1 == IF watchFiles THEN startFileWatcher(x) ELSE x
    IN  IF watchGit THEN startGitWatcher(x1) ELSE x1

(* lines 94-102: the cleanups close the file watcher and clear the git     *)
(* interval; clearTimeout on the debounce timer                            *)
stop(x) ==
    [x EXCEPT !.h.watchers = {},
              !.h.debounceTimer = IF @ = "armed" THEN "cleared" ELSE @]

(* the fs.watch callback for a source file, lines 300-327: the debounce *)
onFileChange(x) == [x EXCEPT !.h.debounceTimer = "armed"]

(* the setTimeout callback, lines 317-326 *)
onDebounce(x) == watcherTrigger([x EXCEPT !.h.debounceTimer = "fired"])

(* the setInterval callback of the git watcher, lines 352-386 *)
onGitPoll(x) ==
    LET currentHash == HeadCommit(x.w)
    IN  IF currentHash # x.h.lastCommitHash
        THEN watcherTrigger([x EXCEPT !.h.lastCommitHash = currentHash])
        ELSE x

(* lines 203-231: after runPipeline() *)
onPipelineResult(x, c) ==
    LET call == x.h.calls[c]
        buildSuccess == x.w.runs[call.run].success
    IN  hookFinally(x, c, call.status = "partial" /\ buildSuccess)

----------------------------------------------------------------------------
(* server.ts 1173-1364: runAutoFix.  A message is a sequence of tokens, one *)
(* token for ten characters, so that slice(0, 50) keeps five tokens and     *)
(* slice(0, 30) three; includes is containment of a contiguous run.         *)

SliceSuccess == 5
SliceOriginal == 3

slice(msg, n) == SubSeq(msg, 1, IF Len(msg) < n THEN Len(msg) ELSE n)

includes(msg, part) ==
    \E i \in 1..(Len(msg) + 1) :
        /\ i + Len(part) - 1 <= Len(msg)
        /\ SubSeq(msg, i, i + Len(part) - 1) = part

(* messages of issues: two that agree on their first thirty characters and  *)
(* a short one                                                              *)
IssueMessages ==
    { <<"a", "b", "c", "d", "e", "f">>, <<"a", "b", "c", "x", "y">>, <<"q">> }

(* messages of the flags a verification reports: the first two issue        *)
(* messages, one that contains the short one, and an unrelated one          *)
FlagMessages ==
    { <<"a", "b", "c", "d", "e", "f">>, <<"a", "b", "c", "x", "y">>, <<"z", "q", "z">>, <<"n">> }

(* severities of the issues of the model: enough to reorder a list *)
Severities == {"critical", "medium"}

order(severity) ==
    CASE severity = "critical" -> 0 [] severity = "high" -> 1
      [] severity = "medium" -> 2 [] OTHER -> 3

(* the issue lists verifyAndFix builds from the flags of a verification,    *)
(* lines 1404-1410: ids issue-1, issue-2, ... in list order                 *)
IssueLists ==
    UNION { { [i \in 1..n |-> [id |-> i, severity |-> sv[i], message |-> ms[i]]] :
                sv \in [1..n -> Severities], ms \in [1..n -> IssueMessages] } :
            n \in 0..MaxIssues }

(* Array.prototype.sort with the severity comparator: stable *)
sortBySeverity(issues) ==
    LET pick(k) == SelectSeq(issues, LAMBDA i : order(i.severity) = k)
    IN  pick(0) \o pick(1) \o pick(2) \o pick(3)

NoFixResult ==
    [set |-> FALSE, success |-> FALSE, issuesFixed |-> 0, issuesRemaining |-> 0,
     commitHash |-> 0, message |-> [count |-> 0, listed |-> <<>>]]

NoFix ==
    [pc |-> "idle", issues |-> <<>>, maxAttempts |-> 0, commitFixes |-> FALSE,
     remainingIssues |-> <<>>, attempts |-> <<>>, attemptNumber |-> 0,
     finalVerification |-> "null", result |-> NoFixResult]

NoEditsError == "Claude did not generate any file edits"
FixThrown == "Error during fix attempt"

(* the attempts.push(...) of lines 1219, 1257 and 1306 *)
pushAttempt(x, success, error) ==
    [x EXCEPT !.f.attempts =
        Append(@, [attemptNumber |-> x.f.attemptNumber, issue |-> x.f.remainingIssues[1],
                   success |-> success, error |-> error])]

shift(x) == [x EXCEPT !.f.remainingIssues = Tail(@)]

(* the final commit made whether or not commits were asked for *)
finalCommitAlways(x, issuesFixed) == commitChanges(x.w)

(* lines 1343-1351: the final commit *)
finalCommit(x, issuesFixed) ==
    IF x.f.commitFixes /\ issuesFixed > 0 THEN commitChanges(x.w) ELSE [x.w EXCEPT !.ret = 0]

(* issuesFixed counted from the successful attempts *)
countFixedBySuccess(f) == Len(SelectSeq(f.attempts, LAMBDA a : a.success))

(* line 1340 *)
countFixed(f) == Len(f.issues) - Len(f.remainingIssues)

(* lines 1340-1361: the result and the final commit *)
finishAutoFix(x) ==
    LET f == x.f
        issuesFixed == countFixed(f)
        success == Len(f.remainingIssues) = 0 \/ f.finalVerification = "pass"
        fixed == SelectSeq(f.attempts, LAMBDA a : a.success)
        message == [count |-> issuesFixed,
                    listed |-> [i \in 1..Len(fixed) |-> fixed[i].issue.message]]
        w1 == finalCommit(x, issuesFixed)
    IN  [x EXCEPT !.w = w1,
                  !.f.pc = "done",
                  !.f.result = [set |-> TRUE, success |-> success, issuesFixed |-> issuesFixed,
                                issuesRemaining |-> Len(f.remainingIssues),
                                commitHash |-> w1.ret,
                                message |-> IF w1.ret # 0 THEN message
                                            ELSE NoFixResult.message]]

(* lines 1320-1337: after the loop *)
afterLoop(x) ==
    IF x.f.finalVerification = "null"
    THEN [x EXCEPT !.f.pc = "finalVerify"]
    ELSE finishAutoFix(x)

(* the loop without its budget test *)
fixLoopNoBudget(x) ==
    IF Len(x.f.remainingIssues) > 0
    THEN [x EXCEPT !.f.attemptNumber = @ + 1, !.f.pc = "generateFix"]
    ELSE afterLoop(x)

(* the loop guard and the head of an iteration, lines 1203-1214 *)
fixLoop(x) ==
    IF Len(x.f.remainingIssues) > 0 /\ x.f.attemptNumber < x.f.maxAttempts
    THEN [x EXCEPT !.f.attemptNumber = @ + 1, !.f.pc = "generateFix"]
    ELSE afterLoop(x)

(* lines 1173-1202: the call up to the loop *)
runAutoFix(x, issues, maxAttempts, commitFixes) ==
    LET snapshot == createSnapshot(x.w)
    IN  fixLoop([x EXCEPT !.f = [NoFix EXCEPT !.issues = issues,
                                              !.maxAttempts = maxAttempts,
                                              !.commitFixes = commitFixes,
                                              !.remainingIssues = sortBySeverity(issues)]])

(* the catch block of an iteration, lines 1302-1319 *)
catchAttempt(x) == fixLoop(shift(pushAttempt(x, FALSE, FixThrown)))

GenerateFixReplies == {"throws", "noEdits", "edits"}

(* lines 1216-1234: after generateFix; wrote says that applyEdits changed   *)
(* a file of the working tree                                               *)
onGenerateFix(x, reply, wrote) ==
    IF reply = "throws" THEN catchAttempt(x)
    ELSE IF reply = "noEdits"
    THEN fixLoop(shift(pushAttempt(x, FALSE, NoEditsError)))
    ELSE [x EXCEPT !.w.tree = IF wrote /\ isRepo THEN @ \cup {"fix"} ELSE @,
                   !.f.pc = "verify"]

(* the drop after repeated failure that never drops *)
dropAfterFailuresNever(x, issue) == x

(* lines 1278-1281 *)
dropAfterFailures(x, issue) ==
    IF Len(SelectSeq(x.f.attempts, LAMBDA a : a.issue.id = issue.id)) >= 2
    THEN shift(x) ELSE x

(* lines 1236-1300: after verify; flags are the messages of its flags *)
onFixVerify(x, threw, flags, status) ==
    IF threw THEN catchAttempt(x)
    ELSE LET issue == x.f.remainingIssues[1]
             issueStillExists ==
                 \E f \in flags : includes(f, slice(issue.message, SliceSuccess))
             success == ~issueStillExists
             x1 == pushAttempt(x, success, "")
             x2 == IF success THEN shift(x1) ELSE dropAfterFailures(x1, issue)
             stillFailing ==
                 {f \in flags : \E i \in 1..Len(x.f.issues) :
                                   includes(f, slice(x.f.issues[i].message, SliceOriginal))}
         IN  IF flags = {}
             THEN finishAutoFix([x2 EXCEPT !.f.remainingIssues = <<>>,
                                           !.f.finalVerification = status])
             ELSE IF stillFailing = {}
             THEN fixLoop([x2 EXCEPT !.f.remainingIssues = <<>>,
                                     !.f.finalVerification = status])
             ELSE fixLoop(x2)

(* lines 1321-1337: after the final verify *)
onFinalVerify(x, threw, status) ==
    finishAutoFix(IF threw THEN x ELSE [x EXCEPT !.f.finalVerification = status])

----------------------------------------------------------------------------
(* Actions *)

Running(r) == r \in 1..Len(runs)
Edits(r) == IF runs[r].cfg.useClaudeCode THEN {{}, {"fix"}} ELSE {{}}

(* the handler reads the body's options only once the lock is found free   *)
(* and the project root is valid                                           *)
BodiesRead(bodies, rootOk) ==
    IF isRunning \/ ~rootOk THEN {CHOOSE b \in bodies : TRUE} ELSE bodies

HttpRun(bodies, free) ==
    \E rootOk \in BOOLEAN :
        \E body \in BodiesRead(bodies, rootOk) :
            /\ isRunning \/ ~rootOk \/ free
            /\ LET w == apiRun(World, rootOk, body) IN Store(w) /\ resp' = w.ret

HttpQuickRun(free) ==
    \E rootOk \in BOOLEAN :
        /\ isRunning \/ ~rootOk \/ free
        /\ LET w == apiQuickRun(World, rootOk) IN Store(w) /\ resp' = w.ret

HttpStop ==
    LET w == apiStop(World) IN Store(w) /\ resp' = w.ret

McpRun(argSet, free) ==
    \E args \in argSet :
        /\ free
        /\ LET w == mcpRunPipeline(World, args) IN Store(w) /\ resp' = w.ret

BuildDone ==
    \E r \in 1..Len(runs), ok \in BOOLEAN :
        /\ runs[r].pc = "build"
        /\ Store(onBuildDone(World, r, ok)) /\ resp' = NoResp

AnalyzeDone(replies) ==
    \E r \in 1..Len(runs), reply \in replies :
        /\ runs[r].pc = "analyze"
        /\ Store(onAnalyzeDone(World, r, reply)) /\ resp' = NoResp

FixPromptDone(replies) ==
    \E r \in 1..Len(runs), reply \in replies :
        /\ runs[r].pc = "genfix"
        /\ \E edits \in Edits(r) :
              Store(onFixPromptDone(World, r, reply, edits)) /\ resp' = NoResp

VerifyDone ==
    \E r \in 1..Len(runs), ok \in BOOLEAN :
        /\ runs[r].pc = "verify"
        /\ Store(onVerifyDone(World, r, ok)) /\ resp' = NoResp

TestDone ==
    \E r \in 1..Len(runs), ok \in BOOLEAN :
        /\ runs[r].pc = "test"
        /\ Store(onTestDone(World, r, ok)) /\ resp' = NoResp

TestAnalyzeDone(replies) ==
    \E r \in 1..Len(runs), reply \in replies :
        /\ runs[r].pc = "tanalyze"
        /\ Store(onTestAnalyzeDone(World, r, reply)) /\ resp' = NoResp

TestFixPromptDone(replies) ==
    \E r \in 1..Len(runs), reply \in replies :
        /\ runs[r].pc = "tgenfix"
        /\ \E edits \in Edits(r) :
              Store(onTestFixPromptDone(World, r, reply, edits)) /\ resp' = NoResp

RebuildDone ==
    \E r \in 1..Len(runs), ok \in BOOLEAN :
        /\ runs[r].pc = "rebuild"
        /\ Store(onRebuildDone(World, r, ok)) /\ resp' = NoResp

RetestDone ==
    \E r \in 1..Len(runs), ok \in BOOLEAN :
        /\ runs[r].pc = "retest"
        /\ Store(onRetestDone(World, r, ok)) /\ resp' = NoResp

(* hook actions: the pipeline's variables and the hook object *)
HookWorld == [w |-> World, h |-> hook]

StoreHook(x) == StorePipeline(x.w) /\ hook' = x.h /\ resp' = NoResp /\ UNCHANGED <<fix, req>>

(* the Runs started by runHook calls so far *)
HookRuns == Cardinality({c \in 1..Len(hook.calls) : hook.calls[c].run # 0})

HandleWebhook ==
    /\ Len(hook.calls) < MaxHooks
    /\ StoreHook(handleWebhook(HookWorld))

CheckInterval ==
    \E c \in 1..Len(hook.calls) :
        /\ hook.calls[c].pc = "queued"
        /\ StoreHook(onCheckInterval(HookWorld, c))

HookVerifyDone ==
    \E c \in 1..Len(hook.calls), status \in VerifyOutcomes :
        /\ hook.calls[c].pc = "verify"
        /\ (hook.runBuildFix /\ status \notin {"pass", "throws"})
              => (CanAllocate /\ HookRuns < MaxHookRuns)
        /\ StoreHook(onVerified(HookWorld, c, status))

HookPipelineDone ==
    \E c \in 1..Len(hook.calls) :
        /\ hook.calls[c].pc = "pipeline"
        /\ runs[hook.calls[c].run].pc = "done"
        /\ StoreHook(onPipelineResult(HookWorld, c))

(* auto-fix actions: the repository and the runAutoFix call *)
FixWorld == [w |-> World, f |-> fix]

StoreFix(x) == StorePipeline(x.w) /\ fix' = x.f /\ resp' = NoResp /\ UNCHANGED <<hook, req>>

VerifyStatuses == {"pass", "fail"}

AutoFixCall ==
    /\ fix.pc = "idle"
    /\ \E issues \in IssueLists, maxAttempts \in 1..DefaultMaxAttempts, commitFixes \in BOOLEAN :
          StoreFix(runAutoFix(FixWorld, issues, maxAttempts, commitFixes))

GenerateFixDone ==
    /\ fix.pc = "generateFix"
    /\ \E reply \in GenerateFixReplies, wrote \in BOOLEAN :
          /\ (reply # "edits" => ~wrote)
          /\ StoreFix(onGenerateFix(FixWorld, reply, wrote))

FixVerifyDone ==
    /\ fix.pc = "verify"
    /\ \E threw \in BOOLEAN, flags \in SUBSET FlagMessages, status \in VerifyStatuses :
          /\ (threw => (flags = {} /\ status = "fail"))
          /\ StoreFix(onFixVerify(FixWorld, threw, flags, status))

FinalVerifyDone ==
    /\ fix.pc = "finalVerify"
    /\ \E threw \in BOOLEAN, status \in VerifyStatuses :
          /\ (threw => status = "fail")
          /\ StoreFix(onFinalVerify(FixWorld, threw, status))

InitPipeline ==
    /\ isRunning = FALSE
    /\ currentRun = 0
    /\ history = <<>>
    /\ stats = [totalRuns |-> 0, successfulRuns |-> 0, failedRuns |-> 0,
                totalFixAttempts |-> 0, successfulFixes |-> 0]
    /\ runs = <<>>
    /\ emitted = <<>>
    /\ evOpen = {}
    /\ resp = NoResp
    /\ gitLog = IF isRepo THEN <<[id |-> 1, changes |-> {}]>> ELSE <<>>
    /\ nextCommit = 2
    /\ client = FALSE
    /\ disk = InitialDisk
    /\ changedFiles = <<>>
    /\ cmd = NoCmd
    /\ hook = NoHook
    /\ fix = NoFix

InitState == InitPipeline /\ req = NoReq

(* Up to MaxRuns runs started by concurrent triggers on a clean repository *)
InitMulti ==
    /\ isRepo = TRUE
    /\ tree = {}
    /\ apiKeyEnv \in BOOLEAN
    /\ InitState

(* The first run of a fresh process, in every environment and with every   *)
(* option, with requests arriving while it executes                        *)
Init ==
    /\ isRepo \in BOOLEAN
    /\ tree \in (IF isRepo THEN {{}, {"user"}} ELSE {{}})
    /\ apiKeyEnv \in BOOLEAN
    /\ InitState

(* an oracle that always answers as documented *)
GoodAnalysisReplies == {"json"}
GoodPromptReplies == {"text"}

Steps(analysisReplies, promptReplies) ==
    \/ BuildDone
    \/ AnalyzeDone(analysisReplies)
    \/ FixPromptDone(promptReplies)
    \/ VerifyDone
    \/ TestDone
    \/ TestAnalyzeDone(analysisReplies)
    \/ TestFixPromptDone(promptReplies)
    \/ RebuildDone
    \/ RetestDone

Next ==
    \/ HttpRun(NoLintBodies, FirstRun)
    \/ HttpQuickRun(FirstRun)
    \/ HttpStop
    \/ McpRun(McpArgs, FirstRun)
    \/ Steps(AnalysisReplies, PromptReplies)

NextMulti ==
    \/ HttpRun(SmallBodies, CanAllocate)
    \/ HttpStop
    \/ McpRun(SmallArgs, CanAllocate)
    \/ Steps(GoodAnalysisReplies, GoodPromptReplies)

(* Runs one after the other: a trigger arrives while a Run executes (HTTP,  *)
(* answered 409) or when none does                                         *)
NextSeq ==
    \/ HttpRun(SmallBodies, CanAllocate)
    \/ McpRun(SmallArgs, CanAllocate /\ ~isRunning)
    \/ Steps(GoodAnalysisReplies, GoodPromptReplies)

(* Webhooks arriving while Runs started over HTTP and by earlier webhooks   *)
(* execute                                                                 *)
InitHook ==
    /\ isRepo = TRUE
    /\ tree = {}
    /\ apiKeyEnv \in BOOLEAN
    /\ InitState

NextHook ==
    \/ HttpRun(BuildOnlyBodies, FirstRun)
    \/ HandleWebhook
    \/ CheckInterval
    \/ HookVerifyDone
    \/ HookPipelineDone
    \/ Steps(GoodAnalysisReplies, GoodPromptReplies)

(* One runAutoFix call, in a repository or outside one *)
InitFix ==
    /\ isRepo \in BOOLEAN
    /\ tree \in (IF isRepo THEN {{}, {"user"}} ELSE {{}})
    /\ apiKeyEnv = TRUE
    /\ InitState

NextFix ==
    \/ AutoFixCall
    \/ GenerateFixDone
    \/ FixVerifyDone
    \/ FinalVerifyDone

(* one Run started over HTTP with runLint and runTests set either way, the  *)
(* oracle answering as documented                                          *)
NextLint ==
    \/ HttpRun(LintBodies, FirstRun)
    \/ Steps(GoodAnalysisReplies, GoodPromptReplies)

(* runAutoFix handing the edits of an oracle answer to applyEdits, server.ts 1234 *)
ApplyEditsCall ==
    \E edits \in EditLists :
        LET st == applyEdits(disk, edits, ProjectRoot)
        IN  /\ disk' = st.disk
            /\ changedFiles' = st.changed
            /\ UNCHANGED <<isRunning, currentRun, history, stats, runs, emitted, evOpen, resp,
                           gitLog, tree, nextCommit, client, isRepo, apiKeyEnv, cmd, hook,
                           fix, req>>

(* Calls of applyEdits, one after another, on the same file system *)
InitEdits ==
    /\ isRepo = FALSE
    /\ tree = {}
    /\ apiKeyEnv = FALSE
    /\ InitState

NextEdits == ApplyEditsCall

(* Steps of one executeCommand call *)

PipelineIdle ==
    UNCHANGED <<isRunning, currentRun, history, stats, runs, emitted, evOpen, resp,
                gitLog, tree, nextCommit, client, isRepo, apiKeyEnv, disk, changedFiles,
                hook, fix, req>>

ExecStart ==
    /\ cmd.proc = "none"
    /\ \E spawned \in BOOLEAN : cmd' = executeCommand(spawned)
    /\ PipelineIdle

StdoutData ==
    /\ cmd.pipesOpen
    /\ Len(cmd.stdout) < MaxChunks
    /\ cmd' = onStdoutData(cmd)
    /\ PipelineIdle

StderrData ==
    /\ cmd.pipesOpen
    /\ Len(cmd.stderr) < MaxChunks
    /\ cmd' = onStderrData(cmd)
    /\ PipelineIdle

(* the process ends: by itself with an exit code, or by a signal; after     *)
(* the timer's SIGTERM it counts as terminated                              *)
ProcExit ==
    /\ cmd.proc = "running"
    /\ \E code \in {0, 1}, bySignal \in BOOLEAN :
          /\ cmd.killed \/ ~bySignal
          /\ cmd' = [cmd EXCEPT !.proc = IF cmd.killed THEN "terminated" ELSE "exited",
                                !.code = IF bySignal THEN 0 ELSE code,
                                !.bySignal = bySignal]
    /\ PipelineIdle

(* the last holder of the stdio pipes closes them *)
PipesClose ==
    /\ cmd.proc \in {"exited", "terminated"}
    /\ cmd.pipesOpen
    /\ cmd' = [cmd EXCEPT !.pipesOpen = FALSE]
    /\ PipelineIdle

CloseEvent ==
    /\ cmd.proc \in {"exited", "terminated"}
    /\ ~cmd.pipesOpen
    /\ ~cmd.closed
    /\ cmd' = onClose(cmd)
    /\ PipelineIdle

TimeoutFires ==
    /\ cmd.timer = "armed"
    /\ cmd' = onTimeout(cmd)
    /\ PipelineIdle

InitCmd ==
    /\ isRepo = FALSE
    /\ tree = {}
    /\ apiKeyEnv = FALSE
    /\ InitState

NextCmd ==
    \/ ExecStart
    \/ StdoutData
    \/ StderrData
    \/ ProcExit
    \/ PipesClose
    \/ CloseEvent
    \/ TimeoutFires

----------------------------------------------------------------------------
(* Requests that keep no pipeline state.  A string of a request is a       *)
(* sequence of characters; a character is a one-character string, or the   *)
(* name of its code point when it lies outside ASCII.                      *)

OnlyReq ==
    UNCHANGED <<isRunning, currentRun, history, stats, runs, emitted, evOpen, resp,
                gitLog, tree, nextCommit, client, isRepo, apiKeyEnv, disk, changedFiles,
                cmd, hook, fix>>

CodePoint(c) ==
    CASE c = " " -> 32
      [] c = "B" -> 66
      [] c = "a" -> 97
      [] c = "b" -> 98
      [] c = "c" -> 99
      [] c = "d" -> 100
      [] c = "e" -> 101
      [] c = "r" -> 114
      [] c = "U+00A9" -> 169
      [] c = "U+00C3" -> 195
      [] c = "U+00E9" -> 233

(* the UTF-8 bytes of one character below U+0800 *)
utf8(c) ==
    LET n == CodePoint(c)
    IN  IF n < 128 THEN <<n>> ELSE <<192 + (n \div 64), 128 + (n % 64)>>

(* Buffer.from(string): the UTF-8 bytes of the string *)
RECURSIVE BufferFrom(_)
BufferFrom(s) == IF s = <<>> THEN <<>> ELSE utf8(Head(s)) \o BufferFrom(Tail(s))

(* a value that may be undefined or null *)
Absent == [set |-> FALSE, s |-> <<>>]
Str(s) == [set |-> TRUE, s |-> s]
(* !value for a string, undefined or null *)
Falsy(v) == ~v.set \/ v.s = <<>>

BearerPrefix == <<"B", "e", "a", "r", "e", "r", " ">>

(* crypto.timingSafeEqual on byte lengths that differ: it throws *)
timingSafeEqualPrefix(a, b) ==
    IF \A i \in 1..Len(a) : i <= Len(b) /\ a[i] = b[i] THEN "true" ELSE "false"

(* crypto.timingSafeEqual: throws a RangeError unless both buffers have    *)
(* the same byte length                                                    *)
timingSafeEqual(a, b) ==
    IF Len(a) # Len(b) THEN "throws"
    ELSE IF \A i \in 1..Len(a) : a[i] = b[i] THEN "true" ELSE "false"

(* String.prototype.startsWith *)
startsWith(s, prefix) ==
    /\ Len(prefix) <= Len(s)
    /\ \A i \in 1..Len(prefix) : s[i] = prefix[i]

(* mcp.ts 858-860: the token a header presents *)
bearerToken(authHeader) ==
    IF startsWith(authHeader, BearerPrefix)
    THEN SubSeq(authHeader, Len(BearerPrefix) + 1, Len(authHeader))
    ELSE authHeader

(* mcp.ts 846-870 *)
validateWebhookAuth(webhookSecret, authHeader) ==
    IF Falsy(webhookSecret) THEN TRUE
    ELSE IF Falsy(authHeader) THEN FALSE
    ELSE LET eq == timingSafeEqual(BufferFrom(bearerToken(authHeader.s)),
                                   BufferFrom(webhookSecret.s))
         IN  IF eq = "throws" THEN FALSE ELSE eq = "true"

Unauthorized == 401

(* dashboard.ts 1181-1187: the middleware answers 401 or hands the request *)
(* to the route (status 0: no answer yet)                                  *)
webhookAuth(r) ==
    [r EXCEPT !.done = TRUE,
              !.status = IF validateWebhookAuth(r.secret, r.header) THEN 0 ELSE Unauthorized]

(* UI_DEBUGGER_WEBHOOK_SECRET or setWebhookSecret: unset, empty, or a text *)
WebhookSecrets ==
    {Absent, Str(<<>>), Str(<<"a", "b", "c">>), Str(<<"a", "b">>), Str(<<"U+00E9">>),
     Str(BearerPrefix \o <<"a", "b", "c">>)}

(* the Authorization header as node decodes it (latin1): missing, empty,   *)
(* with and without the Bearer scheme                                      *)
AuthHeaders ==
    {Absent, Str(<<>>), Str(BearerPrefix),
     Str(BearerPrefix \o <<"a", "b", "c">>),
     Str(BearerPrefix \o <<"a", "b">>),
     Str(BearerPrefix \o <<"a", "b", "c", "d">>),
     Str(BearerPrefix \o <<"a", "b", "d">>),
     Str(BearerPrefix \o <<" ", "a", "b", "c">>),
     Str(BearerPrefix \o BearerPrefix \o <<"a", "b", "c">>),
     Str(BearerPrefix \o <<"U+00E9">>),
     Str(BearerPrefix \o <<"U+00C3", "U+00A9">>),
     Str(<<"a", "b", "c">>),
     Str(<<"a", "b">>),
     Str(<<"b", "e", "a", "r", "e", "r", " ", "a", "b", "c">>)}

WebhookRequest ==
    /\ req.fn = "webhookAuth"
    /\ ~req.done
    /\ req' = webhookAuth(req)
    /\ OnlyReq

(* One request to a route behind webhookAuth, for every secret and header *)
InitAuth ==
    /\ isRepo = FALSE
    /\ tree = {}
    /\ apiKeyEnv = FALSE
    /\ InitPipeline
    /\ \E secret \in WebhookSecrets, header \in AuthHeaders :
          req = [fn |-> "webhookAuth", secret |-> secret, header |-> header,
                 done |-> FALSE, status |-> 0]

NextAuth == WebhookRequest

----------------------------------------------------------------------------
(* POST /api/run: the numbers of the request body.  A JSON value has a     *)
(* type t; a number is kept in halves (h = 2 * value), so that 2.5 is a    *)
(* value; NaN is the number typed "NaN"; a string has its characters s.    *)

MaxFixAttemptsCap == 10
MinTimeout == 10000
MaxTimeout == 600000
DefaultTimeout == 300000

Undefined == [t |-> "undefined", h |-> 0, s |-> <<>>]
JsNull == [t |-> "null", h |-> 0, s |-> <<>>]
NaN == [t |-> "NaN", h |-> 0, s |-> <<>>]
NumberValue(h) == [t |-> "number", h |-> h, s |-> <<>>]
Whole(n) == NumberValue(2 * n)
StringValue(s) == [t |-> "string", h |-> 0, s |-> s]
BoolValue(b) == [t |-> "boolean", h |-> IF b THEN 2 ELSE 0, s |-> <<>>]
ObjectValue == [t |-> "object", h |-> 0, s |-> <<>>]

DigitChars == <<"0", "1", "2", "3", "4", "5", "6", "7", "8", "9">>
IsDigit(c) == \E i \in 1..Len(DigitChars) : DigitChars[i] = c
DigitValue(c) == (CHOOSE i \in 1..Len(DigitChars) : DigitChars[i] = c) - 1

RECURSIVE TrimStart(_)
TrimStart(s) == IF s # <<>> /\ Head(s) = " " THEN TrimStart(Tail(s)) ELSE s

RECURSIVE LeadingDigits(_)
LeadingDigits(s) ==
    IF s # <<>> /\ IsDigit(Head(s)) THEN <<Head(s)>> \o LeadingDigits(Tail(s)) ELSE <<>>

RECURSIVE DecimalValue(_)
DecimalValue(d) ==
    IF d = <<>> THEN 0
    ELSE 10 * DecimalValue(SubSeq(d, 1, Len(d) - 1)) + DigitValue(d[Len(d)])

(* parseInt(string, 10): leading blanks, a sign, then the digits up to the *)
(* first other character; NaN without a digit                              *)
parseInt(s) ==
    LET t == TrimStart(s)
        signed == t # <<>> /\ Head(t) \in {"-", "+"}
        negative == t # <<>> /\ Head(t) = "-"
        d == LeadingDigits(IF signed THEN Tail(t) ELSE t)
    IN  IF d = <<>> THEN NaN
        ELSE NumberValue(2 * (IF negative THEN -1 ELSE 1) * DecimalValue(d))

(* Number(value) of a value that is no string *)
ToNumber(value) ==
    CASE value.t \in {"number", "NaN"} -> value
      [] value.t = "boolean" -> NumberValue(value.h)
      [] value.t = "null" -> Whole(0)
      [] OTHER -> NaN

(* mcp.ts 989-1004 *)
validateInt(value, min, max, defaultValue) ==
    IF value.t \in {"undefined", "null"} THEN Whole(defaultValue)
    ELSE LET num == IF value.t = "string" THEN parseInt(value.s) ELSE ToNumber(value)
         IN  IF num.t = "NaN" THEN Whole(defaultValue)
             ELSE IF num.h < 2 * min THEN Whole(min)
             ELSE IF num.h > 2 * max THEN Whole(max)
             ELSE Whole(num.h \div 2)

(* pipeline.ts 55-66 with the numbers as JSON values *)
JsDefaults ==
    [maxFixAttempts |-> Whole(DefaultMaxFixAttempts), timeout |-> Whole(DefaultTimeout)] @@ Defaults

(* dashboard.ts 1233-1246 for a body that names only numbers; runPipeline  *)
(* lays the result over DEFAULTS                                           *)
dashboardRunConfig(body) ==
    [maxFixAttempts |-> validateInt(body.maxFixAttempts, 0, MaxFixAttemptsCap,
                                    DefaultMaxFixAttempts),
     timeout |-> validateInt(body.timeout, MinTimeout, MaxTimeout, DefaultTimeout)]
        @@ [Defaults EXCEPT !.runTests = FALSE]

(* server.ts 77-90: every field that is not undefined is copied as it is;  *)
(* runPipeline lays the result over DEFAULTS                               *)
serverRunConfig(body) ==
    [f \in {g \in DOMAIN body : body[g] # Undefined} |-> body[f]] @@ JsDefaults

(* dashboard.ts 1218-1261 *)
dashboardApiRun(w, rootOk, body) ==
    IF w.isRunning THEN [w EXCEPT !.ret = Resp(409, 0)]
    ELSE IF ~rootOk THEN [w EXCEPT !.ret = Resp(400, 0)]
    ELSE LET w1 == runPipeline(w, dashboardRunConfig(body))
         IN  [w1 EXCEPT !.ret = Resp(200, w1.currentRun)]

(* server.ts 63-105 *)
serverApiRun(w, rootOk, body) ==
    IF w.isRunning THEN [w EXCEPT !.ret = Resp(409, 0)]
    ELSE IF ~rootOk THEN [w EXCEPT !.ret = Resp(400, 0)]
    ELSE LET w1 == runPipeline(w, serverRunConfig(body))
         IN  [w1 EXCEPT !.ret = Resp(200, w1.currentRun)]

(* what a body may carry for a number: nothing, null, integers inside and  *)
(* outside the ranges, fractions, a huge number, strings, a boolean, an    *)
(* object                                                                  *)
BodyValues ==
    {Undefined, JsNull, ObjectValue, BoolValue(TRUE),
     Whole(0), Whole(3), Whole(MaxFixAttemptsCap), Whole(MaxFixAttemptsCap + 1), Whole(-1),
     NumberValue(5), NumberValue(-1), NumberValue(2 * MaxFixAttemptsCap + 1),
     Whole(MinTimeout - 1), Whole(MinTimeout), Whole(MaxTimeout), NumberValue(2 * MaxTimeout - 1),
     NumberValue(2 * MaxTimeout + 1), Whole(1000000000),
     StringValue(<<>>), StringValue(<<"a", "b", "c">>), StringValue(<<"5">>),
     StringValue(<<"-", "3">>), StringValue(<<"5", ".", "7">>),
     StringValue(<<" ", "1", "2", "a">>),
     StringValue(<<"2", "0", "0", "0", "0">>)}

DashboardRun ==
    /\ req.fn = "apiRun"
    /\ ~req.done
    /\ \E rootOk \in BOOLEAN :
          LET w == dashboardApiRun(World, rootOk, req.body)
          IN  /\ StorePipeline(w)
              /\ resp' = w.ret
              /\ req' = [req EXCEPT !.done = TRUE, !.door = "dashboard"]
    /\ UNCHANGED <<hook, fix>>

ServerRun ==
    /\ req.fn = "apiRun"
    /\ ~req.done
    /\ \E rootOk \in BOOLEAN :
          LET w == serverApiRun(World, rootOk, req.body)
          IN  /\ StorePipeline(w)
              /\ resp' = w.ret
              /\ req' = [req EXCEPT !.done = TRUE, !.door = "server"]
    /\ UNCHANGED <<hook, fix>>

(* One POST /api/run on an idle process, at either server, for every pair  *)
(* of values of maxFixAttempts and timeout                                 *)
InitConfig ==
    /\ isRepo = FALSE
    /\ tree = {}
    /\ apiKeyEnv = FALSE
    /\ InitPipeline
    /\ \E a \in BodyValues, b \in BodyValues :
          req = [fn |-> "apiRun", body |-> [maxFixAttempts |-> a, timeout |-> b],
                 done |-> FALSE, door |-> "none"]

NextConfig == DashboardRun \/ ServerRun

----------------------------------------------------------------------------
(* rollbackToCommit, pipeline.ts 539-541: rollback on a string of the      *)
(* caller                                                                  *)

rollbackToCommit(w, commitHash) == rollback(w, commitHash)

CommitHashes ==
    {HashOf(1),
     SubSeq(HashOf(1), 1, MinHashLen),
     SubSeq(HashOf(1), 1, MaxHashLen - 1),
     [i \in 1..MinHashLen |-> "C"],
     [i \in 1..MinHashLen |-> "0"],
     SubSeq(HashOf(1), 1, MinHashLen - 1),
     HashOf(1) \o <<"c">>,
     <<>>,
     HeadParentRef,
     SubSeq(HashOf(1), 1, MinHashLen - 1) \o <<"g">>,
     SubSeq(HashOf(1), 1, MinHashLen) \o <<"\n">>,
     SubSeq(HashOf(1), 1, MinHashLen) \o <<";", "r", "m">>,
     SubSeq(HashOf(1), 1, MaxHashLen - 1) \o <<"g">>}

RollbackCall ==
    /\ req.fn = "rollback"
    /\ ~req.done
    /\ LET w == rollbackToCommit(World, req.commitHash)
       IN  /\ StorePipeline(w)
           /\ req' = [req EXCEPT !.done = TRUE, !.ret = w.ret]
    /\ UNCHANGED <<resp, hook, fix>>

(* One rollbackToCommit call, in a repository with or without uncommitted  *)
(* changes or outside one, for every string                                *)
InitRollback ==
    /\ isRepo \in BOOLEAN
    /\ tree \in (IF isRepo THEN SUBSET {"user", "fix"} ELSE {{}})
    /\ apiKeyEnv = FALSE
    /\ InitPipeline
    /\ \E commitHash \in CommitHashes :
          req = [fn |-> "rollback", commitHash |-> commitHash, done |-> FALSE, ret |-> FALSE]

NextRollback == RollbackCall

(* POST /api/auto-fix, dashboard.ts 1601-1640: verifyAndFix hands the      *)
(* issues of its verification to runAutoFix; nothing is asked of the       *)
(* pipeline's state                                                        *)
ApiAutoFix(issueLists) ==
    /\ fix.pc = "idle"
    /\ \E issues \in issueLists, commitFixes \in BOOLEAN :
          StoreFix(runAutoFix(FixWorld, issues, DefaultMaxAttempts, commitFixes))

OneIssueLists == {l \in IssueLists : Len(l) = 1}

(* One Run started over HTTP and one POST /api/auto-fix for the same       *)
(* project root, in a clean repository                                     *)
NextShared ==
    \/ HttpRun(SmallBodies, FirstRun)
    \/ Steps(GoodAnalysisReplies, GoodPromptReplies)
    \/ ApiAutoFix(OneIssueLists)
    \/ GenerateFixDone
    \/ FixVerifyDone
    \/ FinalVerifyDone

SpecShared == InitMulti /\ [][NextShared]_vars

(* the operating system reports a change of a source file in the working  *)
(* tree that it has not reported yet                                       *)
FileChanged ==
    /\ "files" \in hook.watchers
    /\ tree \ hook.notified # {}
    /\ StoreHook([onFileChange(HookWorld) EXCEPT !.h.notified = tree])

DebounceFires ==
    /\ hook.debounceTimer = "armed"
    /\ Len(hook.calls) < MaxHooks
    /\ StoreHook(onDebounce(HookWorld))

GitPoll ==
    /\ "git" \in hook.watchers
    /\ HeadCommit(World) # hook.lastCommitHash
    /\ Len(hook.calls) < MaxHooks
    /\ StoreHook(onGitPoll(HookWorld))

HookStop ==
    /\ hook.watchers # {}
    /\ StoreHook(stop(HookWorld))

HookStart ==
    /\ hook = NoHook
    /\ StoreHook(start(HookWorld, TRUE, TRUE))

(* the user saves a source file: the one change that comes from outside,   *)
(* made before any hook execution                                          *)
UserSaves ==
    /\ "user" \notin tree
    /\ hook.calls = <<>>
    /\ tree' = tree \cup {"user"}
    /\ resp' = NoResp
    /\ UNCHANGED <<isRunning, currentRun, history, stats, runs, emitted, evOpen, gitLog,
                   nextCommit, client, isRepo, apiKeyEnv, disk, changedFiles, cmd, hook,
                   fix, req>>

(* A hook object started with watchFiles and watchGit in a clean           *)
(* repository, one file saved by the user, and stop() at any moment        *)
NextWatch ==
    \/ HookStart
    \/ UserSaves
    \/ FileChanged
    \/ DebounceFires
    \/ GitPoll
    \/ HookStop
    \/ CheckInterval
    \/ HookVerifyDone
    \/ HookPipelineDone
    \/ Steps(GoodAnalysisReplies, GoodPromptReplies)

SpecWatch == InitHook /\ [][NextWatch]_vars

Spec == Init /\ [][Next]_vars

(* bodies that leave the fix tool and version control on *)
FairBodies == {b \in NoLintBodies : b.useClaudeCode /\ b.gitEnabled}

(* one Run with any budget, any oracle answers, and stop requests *)
NextFair ==
    \/ HttpRun(FairBodies, FirstRun)
    \/ HttpStop
    \/ Steps(AnalysisReplies, PromptReplies)

(* a Run waits for a command, an oracle call or a git call to return *)
Waiting == \E r \in 1..Len(runs) : runs[r].pc # "done"
(* the continuation of a waiting Run is run: the Run leaves its position *)
Advance == \E r \in 1..Len(runs) : runs[r].pc # "done" /\ runs'[r].pc # runs[r].pc

(* One Run with every awaited command, oracle call and git call returning. *)
(* This is weak fairness of the steps of the Runs,                         *)
(* WF_vars(Steps(AnalysisReplies, PromptReplies)), written out: a step of  *)
(* Steps is enabled exactly when a Run waits, and a step is one of Steps    *)
(* exactly when a waiting Run leaves its position.                         *)
SpecFair == Init /\ [][NextFair]_vars /\ ([]<>~Waiting \/ []<><<Advance>>_vars)

SpecAuth == InitAuth /\ [][NextAuth]_vars

SpecConfig == InitConfig /\ [][NextConfig]_vars

SpecRollback == InitRollback /\ [][NextRollback]_vars

SpecCmd == InitCmd /\ [][NextCmd]_vars

SpecSeq == InitMulti /\ [][NextSeq]_vars

SpecHook == InitHook /\ [][NextHook]_vars

SpecFix == InitFix /\ [][NextFix]_vars

SpecLint == Init /\ [][NextLint]_vars

SpecEdits == InitEdits /\ [][NextEdits]_vars

SpecMulti == InitMulti /\ [][NextMulti]_vars

----------------------------------------------------------------------------
(* Properties *)

RunIds == 1..Len(runs)
Active(r) == runs[r].pc # "done"
Last(q) == q[Len(q)]
InHistory(r) == \E i \in 1..Len(history) : history[i] = r

(* C1: at every moment at most one Run is active, a Run being active from   *)
(* its allocation by runPipeline until its own execution has returned.     *)
C1_AtMostOneActiveRun == Cardinality({r \in RunIds : Active(r)}) <= 1

PermanentlyFailingBuild(r) ==
    /\ runs[r].pc = "done"
    /\ runs[r].cfg.autoFix
    /\ ~runs[r].buildOk

ExactlyBudgetAttempts(r) ==
    /\ runs[r].status = "failed"
    /\ Len(runs[r].fixAttempts) = runs[r].cfg.maxFixAttempts
    /\ (runs[r].cfg.maxFixAttempts = 0
            => runs[r].seen \cap {"analyzing", "fixing", "verifying"} = {})

ThrownErrors == {KeyError, SliceError, JoinError}

RebuildFails(r) ==
    /\ runs[r].pc = "rebuild"
    /\ runs'[r].pc \notin {"rebuild", "retest"}

(* C4: in the test-fix loop, when the attempt's fix was committed and the   *)
(* rebuild fails, the commit is undone by a hard reset to its parent: the  *)
(* branch head is back at the commit that preceded the attempt.            *)
C4_BadCommitRolledBack ==
    [][\A r \in RunIds :
        (RebuildFails(r) /\ runs[r].commitHash # 0)
            => gitLog' = SubSeq(gitLog, 1, Len(gitLog) - 1)]_vars

(* C5: every test-fix attempt whose rebuild fails under the regression      *)
(* guard is recorded in the Run's FixAttempt list as an unsuccessful       *)
(* attempt before the loop continues.                                      *)
C5_RegressionAttemptRecorded ==
    [][\A r \in RunIds :
        RebuildFails(r)
            => /\ Len(runs'[r].fixAttempts) = Len(runs[r].fixAttempts) + 1
               /\ Last(runs'[r].fixAttempts).attempt = runs[r].fixAttempt
               /\ ~Last(runs'[r].fixAttempts).success]_vars

(* C6: stop() on the Run holding the lock marks it failed with reason       *)
(* 'Manually stopped', places it in history and releases the lock; stop()  *)
(* with no such Run reports a no-op and changes no state.                  *)
C6_StopReleasesOrNoOp ==
    [][HttpStop =>
        IF isRunning /\ currentRun # 0
        THEN /\ runs'[currentRun].status = "failed"
             /\ runs'[currentRun].error = "Manually stopped"
             /\ history' = <<currentRun>> \o history
             /\ ~isRunning'
             /\ currentRun' = 0
             /\ resp'.code = 200
        ELSE /\ UNCHANGED <<isRunning, currentRun, history, stats, runs, evOpen, gitLog, tree>>
             /\ emitted' = <<>>
             /\ resp'.code = 404]_vars

(* a second stop right after a first *)
C6_Witness ==
    /\ resp.code = 404
    /\ Len(history) = 1
    /\ runs[history[1]].status = "failed"
    /\ runs[history[1]].error = "Manually stopped"
    /\ ~isRunning /\ currentRun = 0

StageEdges ==
    {<<"idle", "linting">>, <<"idle", "building">>, <<"linting", "building">>,
     <<"building", "testing">>, <<"building", "analyzing">>, <<"testing", "analyzing">>,
     <<"analyzing", "fixing">>, <<"fixing", "verifying">>,
     <<"verifying", "analyzing">>, <<"verifying", "testing">>}
    \cup ({"idle", "linting", "building", "testing", "analyzing", "fixing", "verifying"}
            \X {"complete", "failed"})

(* C7: a Run's stage changes only along the transition graph of the         *)
(* pipeline or directly to complete or failed, and never leaves complete   *)
(* or failed.                                                              *)
C7_StageFollowsGraph ==
    [][\A r \in RunIds :
        runs'[r].status # runs[r].status
            => <<runs[r].status, runs'[r].status>> \in StageEdges]_vars

(* C8: between a Run's start event and its complete event every event       *)
(* emitted carries that Run's id.                                          *)
C8_NoInterleavedEvents ==
    [][\A i \in 1..Len(emitted') : \A r \in evOpen : emitted'[i].runId = r]_vars

BudgetExhausted(r) ==
    runs[r].error \in {"Build failed after all fix attempts",
                       "Tests failed after all fix attempts"}

NamesRollback(text, n) ==
    \E i \in 1..(Len(text) - 1) :
        text[i] = Lit("git reset --hard") /\ text[i + 1] = HashTok(n)

(* C9 as claimed: when the fix budget is spent without success the Run is   *)
(* failed, in history, and its summary contains the rollback command       *)
(* naming the pre-run snapshot, whenever there is a snapshot.              *)
C9_SummaryNamesRollback ==
    \A r \in RunIds :
        (runs[r].pc = "done" /\ BudgetExhausted(r))
            => /\ runs[r].status = "failed"
               /\ InHistory(r)
               /\ (runs[r].snap # 0 => NamesRollback(runs[r].summary, runs[r].snap))

(* C9 amended: when the fix budget is spent without success the Run ends    *)
(* failed with a summary, is placed in history, and the rollback command   *)
(* naming the pre-run snapshot is emitted as a log event of the Run before *)
(* its complete event, whenever there is a snapshot.                       *)
C9_RollbackCommandLogged ==
    [][\A r \in RunIds :
        (runs[r].pc # "done" /\ runs'[r].pc = "done"
            /\ runs'[r].error \in {"Build failed after all fix attempts",
                                   "Tests failed after all fix attempts"})
            => /\ runs'[r].status = "failed"
               /\ runs'[r].summary # NoSummary
               /\ history'[1] = r
               /\ Last(emitted').type = "complete"
               /\ (runs[r].snap # 0
                    => \E i \in 1..Len(emitted') :
                          /\ emitted'[i].type = "log"
                          /\ emitted'[i].runId = r
                          /\ NamesRollback(emitted'[i].msg, runs[r].snap))]_vars

C9_Witness ==
    \E r \in RunIds :
        /\ runs[r].pc = "done"
        /\ runs[r].error = "Tests failed after all fix attempts"
        /\ runs[r].snap # 0
        /\ runs[r].fixAttempt >= 1
        /\ \E i \in 1..Len(emitted) : NamesRollback(emitted[i].msg, runs[r].snap)

(* C10: every Run has a non-empty summary when it is placed in history.     *)
C10_HistoryRunsHaveSummary ==
    \A i \in 1..Len(history) : runs[history[i]].summary # NoSummary

(* run r's build failed at first and was fixed by its k-th attempt, tests off *)
BuildFixedAtLast(r) ==
    /\ runs[r].pc = "done"
    /\ ~runs[r].cfg.runTests
    /\ runs[r].buildOk
    /\ runs[r].fixAttempt >= 1

(* C11: if the initial build fails and the rebuild after the k-th fix       *)
(* succeeds (1 <= k <= maxFixAttempts, tests off), the Run ends complete    *)
(* with success = true and exactly k FixAttempt records, the first k - 1    *)
(* failed and the k-th successful, and its summary reports the count k.     *)
C11_KthFixCompletes ==
    \A r \in RunIds :
        BuildFixedAtLast(r)
            => LET k == runs[r].fixAttempt
               IN  /\ k <= runs[r].cfg.maxFixAttempts
                   /\ runs[r].status = "complete"
                   /\ runs[r].success
                   /\ Len(runs[r].fixAttempts) = k
                   /\ \A i \in 1..k :
                         /\ runs[r].fixAttempts[i].attempt = i
                         /\ runs[r].fixAttempts[i].success = (i = k)
                   /\ \E i \in 1..Len(runs[r].summary) : runs[r].summary[i] = NumTok(k)

C11_Witness ==
    \E r \in RunIds :
        /\ BuildFixedAtLast(r)
        /\ runs[r].fixAttempt = MaxFix
        /\ MaxFix >= 2
        /\ Len(runs[r].fixAttempts) = MaxFix

RootParts == Parts(ProjectRoot)

InsideRoot(real) ==
    /\ Len(real) >= Len(RootParts)
    /\ SubSeq(real, 1, Len(RootParts)) = RootParts

(* what applyEdits has created or modified on the file system *)
Touched ==
    disk.edited \cup (disk.files \ InitialDisk.files) \cup (disk.dirs \ InitialDisk.dirs)

(* C12: no edit is ever written outside the project root: however the       *)
(* target is spelled (../, absolute, through a symlink inside the root),    *)
(* nothing outside the root is created or modified.                         *)
C12_NoWriteOutsideRoot == \A real \in Touched : InsideRoot(real)

HasRollbackHint(text) == \E i \in 1..Len(text) : text[i] = Lit("git reset --hard")

(* C13: in a project with no version-control directory every Run has a null *)
(* snapshot, ends complete or failed, no git step changes the repository or *)
(* the working tree or records a commit, and neither a summary nor a log    *)
(* event carries a rollback hint.                                           *)
C13_NoRepoNoGit ==
    [][~isRepo =>
        /\ gitLog' = gitLog
        /\ nextCommit' = nextCommit
        /\ tree \subseteq tree'
        /\ \A r \in 1..Len(runs') :
              /\ runs'[r].snap = 0
              /\ runs'[r].commitHash = 0
              /\ ~runs'[r].repo
              /\ ~HasRollbackHint(runs'[r].summary)
              /\ (runs'[r].pc = "done" => runs'[r].status \in {"complete", "failed"})
        /\ \A i \in 1..Len(emitted') : ~HasRollbackHint(emitted'[i].msg)]_vars

C13_Witness ==
    /\ ~isRepo
    /\ tree = {"fix"}
    /\ \E r \in RunIds :
          /\ runs[r].pc = "done"
          /\ runs[r].cfg.gitEnabled /\ runs[r].cfg.gitCommitFixes
          /\ runs[r].error = "Build failed after all fix attempts"
          /\ runs[r].fixAttempt >= 1
          /\ Last(emitted).type = "complete"

HasSentinel(text) == \E i \in 1..Len(text) : text[i] = TimeoutSentinel

TimeoutResult(c) ==
    /\ c.result.set
    /\ ~c.result.success
    /\ c.result.exitCode = -1
    /\ HasSentinel(c.result.stderr)

(* C14 as claimed: a command still running when its timeout expires gets    *)
(* success = false, exitCode = -1 and the sentinel on stderr, and no result *)
(* of a command that exited by itself or failed to spawn carries the        *)
(* sentinel.                                                                *)
C14_TimeoutDistinguishable ==
    [][/\ (cmd.timer = "armed" /\ cmd'.timer = "fired" /\ cmd.proc = "running")
            => TimeoutResult(cmd')
       /\ (cmd'.result.set /\ cmd'.proc \in {"exited", "spawnFailed"})
            => ~HasSentinel(cmd'.result.stderr)]_vars

(* C14 amended: whenever the timer callback runs before the close or error  *)
(* event of the command is handled, which includes every command still      *)
(* running when its timeout expires, the result has success = false,        *)
(* exitCode = -1 and the sentinel on stderr; a result carries the sentinel  *)
(* only then, and a result once produced never changes.                     *)
C14_SentinelIffTimerFirst ==
    [][/\ (cmd.timer = "armed" /\ cmd'.timer = "fired") => TimeoutResult(cmd')
       /\ (cmd'.result.set /\ HasSentinel(cmd'.result.stderr))
            => (cmd'.timer = "fired" /\ TimeoutResult(cmd'))
       /\ cmd.result.set => cmd'.result = cmd.result]_vars

C14_Witness ==
    /\ cmd.proc = "running"
    /\ cmd.timer = "fired"
    /\ cmd.killed
    /\ TimeoutResult(cmd)
    /\ Len(cmd.stderr) >= 1

(* the step in which run r ends through the catch block *)
EndsOnThrow(r) ==
    /\ runs[r].pc # "done"
    /\ runs'[r].pc = "done"
    /\ runs'[r].error \in ThrownErrors

(* C15: an error thrown in a Run is caught at the top of that Run: the Run  *)
(* ends failed with the error as its terminal error, is placed in history   *)
(* with one complete event, the lock is released, and the rollback hint is  *)
(* logged when a pre-run snapshot exists.                                   *)
C15_ThrownErrorEndsRun ==
    [][\A r \in RunIds :
        EndsOnThrow(r)
            => /\ runs'[r].status = "failed"
               /\ ~runs'[r].success
               /\ Len(history') >= 1
               /\ history'[1] = r
               /\ ~isRunning'
               /\ currentRun' = 0
               /\ stats'.failedRuns = stats.failedRuns + 1
               /\ Cardinality({i \in 1..Len(emitted') :
                                 emitted'[i].type = "complete" /\ emitted'[i].runId = r}) = 1
               /\ (runs[r].snap # 0
                    => \E i \in 1..Len(emitted') :
                          /\ emitted'[i].type = "log"
                          /\ NamesRollback(emitted'[i].msg, runs[r].snap))]_vars

C15_Witness ==
    \E r \in RunIds :
        /\ runs[r].pc = "done"
        /\ runs[r].error = SliceError
        /\ runs[r].snap # 0
        /\ history = <<r>>
        /\ ~isRunning

(* run r has an oracle client: a key in its configuration or the environment *)
HasClient(r) == apiKeyEnv \/ runs[r].cfg.anthropicApiKey

UnusableReplies == {"text", "malformedJson", "empty", "networkError"}

C17_OrdinalsStrictlyIncrease ==
    \A r \in RunIds :
        LET fa == runs[r].fixAttempts
        IN  /\ (Len(fa) >= 1 => fa[1].attempt = 1)
            /\ \A i \in 1..(Len(fa) - 1) : fa[i].attempt < fa[i + 1].attempt

StageChanges(r) == r > Len(runs) \/ runs'[r].status # runs[r].status

Announced(type, r, stage) ==
    \E i \in 1..Len(emitted') :
        /\ emitted'[i].type = type
        /\ emitted'[i].runId = r
        /\ emitted'[i].stage = stage

TerminalStages == {"complete", "failed"}

(* C19 as claimed: every change of a Run's stage, the final change to       *)
(* complete or failed included, is announced by a stage event that carries  *)
(* the Run id and the new stage.                                            *)
C19_EveryStageChangeAnnounced ==
    [][\A r \in 1..Len(runs') :
        StageChanges(r) => Announced("stage", r, runs'[r].status)]_vars

(* C19 amended: every change of a Run's stage to a stage other than         *)
(* complete and failed is announced by a stage event that carries the Run   *)
(* id and the new stage; no stage event ever carries complete or failed,    *)
(* and a change to one of them is announced in the same step by a complete  *)
(* event that carries the Run in its final stage.                           *)
C19_StageOrCompleteAnnounced ==
    [][/\ \A r \in 1..Len(runs') :
            StageChanges(r)
                => IF runs'[r].status \in TerminalStages
                   THEN Announced("complete", r, runs'[r].status)
                   ELSE Announced("stage", r, runs'[r].status)
       /\ \A i \in 1..Len(emitted') :
            emitted'[i].type = "stage" => emitted'[i].stage \notin TerminalStages]_vars

(* a Run has just gone from verifying to complete: the step emitted its     *)
(* complete event and no stage event                                        *)
C19_Witness ==
    \E r \in RunIds :
        /\ runs[r].status = "complete"
        /\ "verifying" \in runs[r].seen
        /\ Len(emitted) >= 1
        /\ Last(emitted) = Event("complete", r, "complete", <<>>)
        /\ \A i \in 1..Len(emitted) : emitted[i].type # "stage"

(* run r has left the idle stage: its build command was started *)
Started(r) == runs[r].pc # "start"

(* with runLint on the Run passes through linting before building, with     *)
(* runLint off it never does                                                *)
LintGated ==
    \A r \in RunIds :
        Started(r) => (("linting" \in runs[r].seen) <=> runs[r].cfg.runLint)

(* with runTests on and a successful build the Run passes through testing,  *)
(* with runTests off it never does                                          *)
TestingGated ==
    \A r \in RunIds :
        /\ (runs[r].cfg.runTests /\ runs[r].buildOk) => "testing" \in runs[r].seen
        /\ ~runs[r].cfg.runTests => "testing" \notin runs[r].seen

(* C20: linting and testing are configuration-gated stages: with runLint on *)
(* the Run passes through linting before building and with runLint off it   *)
(* never does; with runTests on and a successful build it passes through    *)
(* testing and with runTests off it never does.                             *)
C20_LintAndTestGated == LintGated /\ TestingGated

(* call c has left the queue in this step: it passed the guard of runHook *)
HookStarts(c) ==
    /\ c > Len(hook.calls) \/ hook.calls[c].pc = "queued"
    /\ hook'.calls[c].pc = "verify"

(* call c starts its pipeline Run in this step *)
HookStartsRun(c) == hook.calls[c].pc = "verify" /\ hook'.calls[c].pc = "pipeline"

(* C21: a hook that arrives while a Run is active is neither rejected nor   *)
(* dropped: it stays queued and polls, and it starts its own Run only when  *)
(* the active-run flag has cleared.                                         *)
C21_HookWaitsForActiveRun ==
    [][\A c \in 1..Len(hook.calls) :
        /\ hook.calls[c].pc = "queued" => hook'.calls[c].pc \in {"queued", "verify"}
        /\ HookStartsRun(c) => ~isRunning]_vars

(* some Run was started with an explicit gitCommitFixes flag *)
CommitsAsked == \E r \in 1..Len(runs') : runs'[r].cfg.gitCommitFixesGiven

(* C22: no git commit is ever created unless the caller explicitly asked    *)
(* for commits: a Pipeline Run started without an explicit gitCommitFixes   *)
(* flag, and an Auto-Fix run started without commitFixes, leave the         *)
(* repository's commit history unchanged.                                   *)
C22_NoCommitUnlessAsked ==
    [][gitLog' # gitLog => (CommitsAsked \/ fix'.commitFixes)]_vars

(* the step in which the runAutoFix call returns *)
AutoFixFinishes == fix.pc # "done" /\ fix'.pc = "done"

(* the messages of the issues of the successful attempts, in order *)
SuccessfulMessages(f) ==
    LET fixed == SelectSeq(f.attempts, LAMBDA a : a.success)
    IN  [i \in 1..Len(fixed) |-> fixed[i].issue.message]

(* C23 as claimed: an Auto-Fix run that finishes with commits enabled and   *)
(* at least one issue fixed makes exactly one commit, which contains all    *)
(* changes and whose message lists the resolved issues; no commit is made   *)
(* per attempt.                                                             *)
C23_ExactlyOneFinalCommit ==
    [][/\ ~AutoFixFinishes => gitLog' = gitLog
       /\ (AutoFixFinishes /\ fix'.commitFixes /\ fix'.result.issuesFixed > 0)
            => /\ Len(gitLog') = Len(gitLog) + 1
               /\ gitLog'[Len(gitLog')].changes = tree
               /\ Len(fix'.result.message.listed) = fix'.result.issuesFixed]_vars

(* C23 amended: no commit is made per attempt.  When the run finishes with  *)
(* commits enabled and issuesFixed > 0 it calls commitChanges once: in a    *)
(* repository whose working tree has changes this makes exactly one commit  *)
(* of the whole working tree, whose message gives the count issuesFixed and *)
(* lists the issues of the successful attempts; otherwise there is no       *)
(* commit and no commit hash.                                               *)
C23_AtMostOneFinalCommit ==
    [][/\ ~AutoFixFinishes => gitLog' = gitLog
       /\ AutoFixFinishes
            => IF fix'.commitFixes /\ fix'.result.issuesFixed > 0 /\ isRepo /\ tree # {}
               THEN /\ gitLog' = Append(gitLog, [id |-> nextCommit, changes |-> tree])
                    /\ tree' = {}
                    /\ fix'.result.commitHash = nextCommit
                    /\ fix'.result.message.count = fix'.result.issuesFixed
                    /\ fix'.result.message.listed = SuccessfulMessages(fix')
               ELSE /\ gitLog' = gitLog
                    /\ fix'.result.commitHash = 0]_vars

(* a finished run with its one commit, whose message counts more issues     *)
(* than it lists                                                            *)
C23_Witness ==
    /\ fix.pc = "done"
    /\ fix.result.commitHash # 0
    /\ gitLog[Len(gitLog)].id = fix.result.commitHash
    /\ Len(fix.result.message.listed) >= 1
    /\ fix.result.message.count > Len(fix.result.message.listed)

(* the attempts made on the issue with this id, and the failed ones *)
AttemptsOn(id) == SelectSeq(fix.attempts, LAMBDA a : a.issue.id = id)
FailuresOn(id) == SelectSeq(fix.attempts, LAMBDA a : a.issue.id = id /\ ~a.success)

Queued(id) == \E i \in 1..Len(fix.remainingIssues) : fix.remainingIssues[i].id = id

IterationEnds == fix.pc \in {"generateFix", "verify"} /\ fix'.pc # "verify"

C26_FixedPlusRemainingIsTotal ==
    fix.result.set
        => /\ fix.result.issuesFixed + fix.result.issuesRemaining = Len(fix.issues)
           /\ fix.result.issuesFixed >= 0
           /\ fix.result.issuesRemaining = Len(fix.remainingIssues)

(* a finished run with one issue counted as fixed although no attempt       *)
(* succeeded, and one issue remaining                                       *)
C26_Witness ==
    /\ fix.result.set
    /\ fix.result.issuesFixed = 1
    /\ fix.result.issuesRemaining = 1
    /\ \A i \in 1..Len(fix.attempts) : ~fix.attempts[i].success

(* C27: with a webhook secret configured, a request is accepted exactly     *)
(* when the token it presents equals the whole secret; a shorter token,     *)
(* any other token and a missing header are answered 401.                   *)
C27_AcceptedIffTokenIsSecret ==
    (req.fn = "webhookAuth" /\ req.done /\ ~Falsy(req.secret))
        => /\ req.status \in {0, Unauthorized}
           /\ req.status = 0
                <=> /\ req.header.set
                    /\ \/ req.header.s = BearerPrefix \o req.secret.s
                       \/ /\ req.header.s = req.secret.s
                          /\ ~startsWith(req.secret.s, BearerPrefix)

(* secret "abc": the header "Bearer abc" was accepted *)
C27_Witness ==
    /\ req.fn = "webhookAuth"
    /\ req.done
    /\ req.secret = Str(<<"a", "b", "c">>)
    /\ req.header = Str(BearerPrefix \o <<"a", "b", "c">>)
    /\ req.status = 0

(* v is a number, whole, and lies within lo..hi *)
IsIntWithin(v, lo, hi) ==
    /\ v.t = "number"
    /\ v.h % 2 = 0
    /\ lo <= v.h \div 2
    /\ v.h \div 2 <= hi

(* C28: whatever a request body carries for maxFixAttempts or timeout, the  *)
(* configuration that reaches the Run has an integer maxFixAttempts within  *)
(* 0..10 (3 when missing) and an integer timeout within 10000..600000       *)
(* (300000 when missing).                                                   *)
C28_ConfigNumbersClamped ==
    \A r \in 1..Len(runs) :
        /\ IsIntWithin(runs[r].cfg.maxFixAttempts, 0, MaxFixAttemptsCap)
        /\ IsIntWithin(runs[r].cfg.timeout, MinTimeout, MaxTimeout)
        /\ req.body.maxFixAttempts = Undefined
              => runs[r].cfg.maxFixAttempts = Whole(DefaultMaxFixAttempts)
        /\ req.body.timeout = Undefined => runs[r].cfg.timeout = Whole(DefaultTimeout)

(* the string is not 7 to 40 hexadecimal characters *)
NotAHash(str) ==
    \/ Len(str) < MinHashLen
    \/ Len(str) > MaxHashLen
    \/ \E i \in 1..Len(str) : str[i] \notin HexChars

(* C29: rollback called with a string that is not 7 to 40 hexadecimal       *)
(* characters returns false and runs no git command: the branch and the     *)
(* working tree stay as they were.                                          *)
C29_BadHashChangesNothing ==
    [][(req.fn = "rollback" /\ ~req.done /\ req'.done /\ NotAHash(req.commitHash))
          => /\ req'.ret = FALSE
             /\ UNCHANGED <<gitLog, tree, nextCommit>>]_vars

(* a string one character short of a hash, which git alone would resolve to *)
(* the head commit, was refused with uncommitted changes in the tree        *)
C29_Witness ==
    /\ req.fn = "rollback"
    /\ req.done
    /\ req.commitHash = SubSeq(HashOf(1), 1, MinHashLen - 1)
    /\ req.ret = FALSE
    /\ isRepo
    /\ tree = {"user"}

(* the fields a Run records about its outcome *)
Recorded(run) ==
    [status |-> run.status, success |-> run.success, summary |-> run.summary,
     error |-> run.error, fixAttempts |-> run.fixAttempts, completions |-> run.completions]

(* C30: once a Run has been appended to history it is frozen: its status,   *)
(* success, summary, error, FixAttempt list and completion time never       *)
(* change afterwards.                                                       *)
C30_HistoryRunsFrozen ==
    [][\A r \in 1..Len(runs) : InHistory(r) => Recorded(runs'[r]) = Recorded(runs[r])]_vars

(* how many entries of history are the Run r *)
TimesInHistory(r) == Cardinality({i \in 1..Len(history) : history[i] = r})

(* C31: each Run is appended to history exactly once and exactly one        *)
(* complete event is emitted for it, whether it ends by itself or through   *)
(* stop(); history never holds two entries with the same Run.               *)
C31_AppendedAndCompletedOnce ==
    \A r \in RunIds :
        /\ TimesInHistory(r) <= 1
        /\ runs[r].completions = TimesInHistory(r)
        /\ runs[r].pc = "done" => TimesInHistory(r) = 1

(* the Run r is finished in this step: finishRun was called on it *)
Finishes(r) == runs'[r].completions > runs[r].completions

(* C32: the single-flight lock is released only on behalf of the Run that   *)
(* holds it: when a Run finishes or is stopped, isRunning and currentRun    *)
(* are cleared only if currentRun is that very Run; and isRunning is true   *)
(* exactly when currentRun is non-null.                                     *)
C32_LockReleasedByHolderOnly ==
    [][/\ isRunning' <=> currentRun' # 0
       /\ \A r \in RunIds :
             (Finishes(r) /\ currentRun # r) => UNCHANGED <<isRunning, currentRun>>]_vars

(* the executions of the build and of the test command stay within the     *)
(* budget of the Run                                                        *)
WithinCommandBudget ==
    \A r \in RunIds :
        /\ runs[r].builds <= 1 + 2 * runs[r].cfg.maxFixAttempts
        /\ runs[r].tests <= 1 + runs[r].cfg.maxFixAttempts

Terminated(r) ==
    /\ Len(runs) >= r
    /\ runs[r].pc = "done"
    /\ runs[r].status \in {"complete", "failed"}
    /\ ~isRunning

(* C33: every started Run terminates: provided each command, oracle call    *)
(* and git call returns, the Run reaches complete or failed and releases    *)
(* the lock after at most 1 + 2*maxFixAttempts executions of the build      *)
(* command and 1 + maxFixAttempts executions of the test command.           *)
C33_EveryRunTerminates ==
    /\ []WithinCommandBudget
    /\ \A r \in 1..MaxRuns : (Len(runs) >= r) ~> Terminated(r)

(* a Run that ended after using the whole budget of both commands *)
C33_Witness ==
    /\ Terminated(1)
    /\ runs[1].cfg.maxFixAttempts = MaxFix
    /\ runs[1].builds = 1 + 2 * MaxFix
    /\ runs[1].tests = 1 + MaxFix

(* the verification of a build fix of Run r fails in this step *)
BuildFixFails(r) ==
    runs[r].pc = "verify" /\ runs'[r].pc # "verify" /\ ~runs'[r].buildOk

(* the verification of a test fix of Run r fails in this step: the rebuild  *)
(* fails, or the tests fail again                                           *)
TestFixFails(r) ==
    \/ runs[r].pc = "rebuild" /\ runs'[r].pc \notin {"rebuild", "retest"}
    \/ runs[r].pc = "retest" /\ runs'[r].pc # "retest" /\ ~runs'[r].testOk

(* version control is enabled and in use, and commits are disabled *)
DiscardsFixes(r) == isRepo /\ runs[r].cfg.gitEnabled /\ ~runs[r].cfg.gitCommitFixes

(* C34: whenever a fix attempt fails its verification while version control *)
(* is enabled and commits are disabled, the working-tree changes of that    *)
(* attempt are discarded before the next attempt begins or the Run ends, in *)
(* the build-fix loop and in the test-fix loop alike.                       *)
C34_FailedFixDiscarded ==
    [][\A r \in RunIds :
          (DiscardsFixes(r) /\ (BuildFixFails(r) \/ TestFixFails(r))) => "fix" \notin tree']_vars

(* the change that was uncommitted before any Run started is part of a commit *)
UserChangeCommitted == \E i \in 1..Len(gitLog) : "user" \in gitLog[i].changes

(* C35: changes that were already uncommitted in the working tree when a    *)
(* Run started are still present, uncommitted and unmodified, when the Run  *)
(* ends: no step of a Run puts them into a fix commit, and none deletes     *)
(* them when it discards or rolls back a failed fix.                        *)
C35_UserChangesKept ==
    [][("user" \in tree /\ ~UserChangeCommitted)
          => ("user" \in tree' /\ ~UserChangeCommitted')]_vars

(* the issues of an Auto-Fix run that a verification following their fix   *)
(* no longer reported                                                      *)
ReverifiedIssues(f) ==
    {i \in 1..Len(f.issues) :
        \E a \in 1..Len(f.attempts) :
            f.attempts[a].success /\ f.attempts[a].issue.id = f.issues[i].id}

(* C36: when an Auto-Fix run ends after its loop without a verification    *)
(* that passes, issuesFixed is the number of issues that a re-verification *)
(* no longer reported: an issue dropped after two failed attempts, skipped *)
(* for want of edits or abandoned after an error is not counted as fixed.  *)
C36_FixedCountsReverified ==
    [][(fix.pc = "finalVerify" /\ fix'.pc = "done" /\ fix'.finalVerification # "pass")
          => fix'.result.issuesFixed = Cardinality(ReverifiedIssues(fix'))]_vars

(* the positions at which a Run waits for its build command *)
BuildPositions == {"build", "verify", "rebuild"}

SaysBuildOk(summary) ==
    \E i \in 1..Len(summary) : summary[i] = Lit("fix attempts. Build OK.")

(* C37: a Run that ends failed with a summary stating that the build is OK *)
(* does not end in the step in which its build command returns: a Run ends *)
(* on the return of a build command only when that build has failed, so    *)
(* the last build of such a Run is one that succeeded.                     *)
C37_BuildOkMeansLastBuildPassed ==
    [][\A r \in 1..Len(runs) :
          (/\ runs[r].pc # "done"
           /\ runs'[r].pc = "done"
           /\ runs'[r].status = "failed"
           /\ SaysBuildOk(runs'[r].summary))
             => runs[r].pc \notin BuildPositions]_vars

(* the fix tool of a Run is writing, or its edit awaits its verification *)
RunRepairing ==
    \E r \in 1..Len(runs) : runs[r].pc \in {"genfix", "verify", "tgenfix", "rebuild", "retest"}

(* the same for the Auto-Fix run *)
FixRepairing == fix.pc \in {"generateFix", "verify"}

(* C38: an Auto-Fix run and a Pipeline Run are never both in a fix          *)
(* iteration (writing edits, committing, verifying the edit) in the same   *)
(* working tree.                                                           *)
C38_OneRepairActivity == ~(RunRepairing /\ FixRepairing)

(* C39: with file and git watching on, one change from outside leads to    *)
(* one hook execution: the edits and commits of the Run that a hook        *)
(* execution starts are not taken for a new change.                        *)
C39_RepairStartsNoHook == Len(hook.calls) <= 1

(* stop() has returned on a started hook object *)
Stopped == hook.watchers = {} /\ hook # NoHook

(* C40: after stop() has returned no hook execution starts: no call of     *)
(* runHook passes the isRunning test.                                      *)
C40_NoHookAfterStop ==
    [][Stopped => \A c \in 1..Len(hook'.calls) :
                     hook'.calls[c].pc = "verify"
                        => (c <= Len(hook.calls) /\ hook.calls[c].pc = "verify")]_vars

============================================================================
